---- MODULE Spec2Model ----
(***************************************************************************)
(* Model of the Holy-Repair crawler (src/crawler/holy_repair.py): the      *)
(* repair run of RepairCrawler (process_files / process_single_file), the  *)
(* diocese dispatcher (infer_diocese / get_handler), the five diocese      *)
(* handlers and the schedule text parser they call.                        *)
(*                                                                         *)
(* Strings are sequences of Unicode code points, so that the substring     *)
(* tests, replacements, lengths and prefixes of the source are computed    *)
(* the way Python computes them.                                           *)
(***************************************************************************)
EXTENDS Integers, Sequences, FiniteSets, TLC

(***************************************************************************)
(* Python string operations                                                *)
(***************************************************************************)

\* len(s) < n, s[:n]
Prefix(s, n) == SubSeq(s, 1, IF Len(s) < n THEN Len(s) ELSE n)

\* s.startswith(p)
StartsWith(s, p) == Len(p) <= Len(s) /\ SubSeq(s, 1, Len(p)) = p

\* s[i:] with a 1-based i
From(s, i) == SubSeq(s, i, Len(s))

\* sub in s
IsIn(sub, s) == \E i \in 1..(Len(s) - Len(sub) + 1) : SubSeq(s, i, i + Len(sub) - 1) = sub

\* s.find(sub): the 1-based position of the first occurrence, 0 when there is none
Find(sub, s) ==
    IF IsIn(sub, s)
    THEN CHOOSE i \in 1..(Len(s) - Len(sub) + 1) :
            /\ SubSeq(s, i, i + Len(sub) - 1) = sub
            /\ \A j \in 1..(i - 1) : SubSeq(s, j, j + Len(sub) - 1) /= sub
    ELSE 0

\* s.replace(old, new), old non-empty: left to right, non-overlapping, from one
\* occurrence to the next
RECURSIVE Replace(_, _, _)
Replace(s, old, new) ==
    IF IsIn(old, s)
    THEN SubSeq(s, 1, Find(old, s) - 1) \o new
         \o Replace(From(s, Find(old, s) + Len(old)), old, new)
    ELSE s

\* str.isspace() for the characters that occur: space, tab, LF, CR
IsSpace(c) == c \in {32, 9, 10, 13}

\* s.lstrip(): s from its first character that is no whitespace
LStrip(s) ==
    IF \A i \in 1..Len(s) : IsSpace(s[i]) THEN <<>>
    ELSE From(s, CHOOSE i \in 1..Len(s) :
                    ~IsSpace(s[i]) /\ \A j \in 1..(i - 1) : IsSpace(s[j]))

\* s.rstrip(): s up to its last character that is no whitespace
RStrip(s) ==
    IF \A i \in 1..Len(s) : IsSpace(s[i]) THEN <<>>
    ELSE SubSeq(s, 1, CHOOSE i \in 1..Len(s) :
                         ~IsSpace(s[i]) /\ \A j \in (i + 1)..Len(s) : IsSpace(s[j]))

\* s.strip()
Strip(s) == RStrip(LStrip(s))

(***************************************************************************)
(* String literals of the source, as code points                           *)
(***************************************************************************)

k_seoul      == <<49436, 50872>>                  \* "서울"
k_daegu      == <<45824, 44396>>                  \* "대구"
k_gwangju    == <<44305, 51452>>                  \* "광주"
k_jeju       == <<51228, 51452>>                  \* "제주"
k_daejeon    == <<45824, 51204>>                  \* "대전"
k_sejong     == <<49464, 51333>>                  \* "세종"
k_chungnam   == <<52649, 45224>>                  \* "충남"
k_chungnamdo == <<52649, 52397, 45224, 46020>>    \* "충청남도"
k_busan      == <<48512, 49328>>                  \* "부산"
k_incheon    == <<51064, 52380>>                  \* "인천"
k_jeonbuk    == <<51204, 48513>>                  \* "전북"
k_jeonbukdo  == <<51204, 46972, 48513, 46020>>    \* "전라북도"
k_chungbuk   == <<52649, 48513>>                  \* "충북"
k_chungbukdo == <<52649, 52397, 48513, 46020>>    \* "충청북도"
k_gangwon    == <<44053, 50896>>                  \* "강원"
k_gangwondo  == <<44053, 50896, 46020>>           \* "강원도"
k_wonju      == <<50896, 51452>>                  \* "원주"
k_gyeonggi   == <<44221, 44592>>                  \* "경기"
k_suwon      == <<49688, 50896>>                  \* "수원"
k_cheonjugyo == <<52380, 51452, 44368>>           \* "천주교"
k_seongdang  == <<49457, 45817>>                  \* "성당"
k_jugyojwa   == <<51452, 44368, 51340>>           \* "주교좌"
k_gyogu      == <<44368, 44396>>                  \* "교구"
k_daegyogu   == <<45824, 44368, 44396>>           \* "대교구"

\* the city lists of infer_diocese's 경기 branch
SuwonCities ==
    { <<49688, 50896>>, <<49457, 45224>>, <<50857, 51064>>, <<50504, 50577>>,
      <<50504, 49328>>, <<54868, 49457>>, <<54217, 53469>> }
UijeongbuCities ==
    { <<44256, 50577>>, <<51032, 51221, 48512>>, <<54028, 51452>>,
      <<45224, 50577, 51452>>, <<44396, 47532>> }
IncheonCities == { <<48512, 52380>>, <<44608, 54252>> }

(***************************************************************************)
(* Diocese dispatcher                                                      *)
(***************************************************************************)

\* infer_diocese(address): the rules in the order of the source
infer_diocese(address) ==
    IF address = <<>> THEN <<>>
    ELSE IF IsIn(k_seoul, address) THEN k_seoul \o k_daegyogu
    ELSE IF IsIn(k_daegu, address) THEN k_daegu \o k_daegyogu
    ELSE IF IsIn(k_gwangju, address) THEN k_gwangju \o k_daegyogu
    ELSE IF IsIn(k_jeju, address) THEN k_jeju \o k_gyogu
    ELSE IF \/ IsIn(k_daejeon, address) \/ IsIn(k_sejong, address)
            \/ IsIn(k_chungnam, address) \/ IsIn(k_chungnamdo, address)
         THEN k_daejeon \o k_gyogu
    ELSE IF IsIn(k_busan, address) THEN k_busan \o k_gyogu
    ELSE IF IsIn(k_incheon, address) THEN k_incheon \o k_gyogu
    ELSE IF IsIn(k_jeonbuk, address) \/ IsIn(k_jeonbukdo, address)
         THEN <<51204, 51452>> \o k_gyogu                       \* "전주교구"
    ELSE IF IsIn(k_chungbuk, address) \/ IsIn(k_chungbukdo, address)
         THEN <<52397, 51452>> \o k_gyogu                       \* "청주교구"
    ELSE IF IsIn(k_gangwon, address) \/ IsIn(k_gangwondo, address)
         THEN IF IsIn(k_wonju, address) THEN k_wonju \o k_gyogu
              ELSE <<52632, 52380>> \o k_gyogu                  \* "춘천교구"
    ELSE IF IsIn(k_gyeonggi, address)
         THEN IF \E c \in SuwonCities : IsIn(c, address) THEN k_suwon \o k_gyogu
              ELSE IF \E c \in UijeongbuCities : IsIn(c, address)
                   THEN <<51032, 51221, 48512>> \o k_gyogu      \* "의정부교구"
              ELSE IF \E c \in IncheonCities : IsIn(c, address) THEN k_incheon \o k_gyogu
              ELSE k_suwon \o k_gyogu
    ELSE <<>>

\* the handlers; NoHandler is get_handler's None
Handlers == {"handle_seoul", "handle_daegu", "handle_suwon", "handle_incheon", "handle_busan"}
NoHandler == "None"

\* get_handler(diocese)
get_handler(diocese) ==
    LET normalized == Strip(Replace(Replace(diocese, k_cheonjugyo, <<>>), <<32>>, <<>>))
    IN  IF IsIn(k_seoul, normalized) THEN "handle_seoul"
        ELSE IF IsIn(k_daegu, normalized) THEN "handle_daegu"
        ELSE IF IsIn(k_suwon, normalized) THEN "handle_suwon"
        ELSE IF IsIn(k_incheon, normalized) THEN "handle_incheon"
        ELSE IF IsIn(k_busan, normalized) THEN "handle_busan"
        ELSE NoHandler

(***************************************************************************)
(* Schedule text parser: shared pieces                                     *)
(***************************************************************************)

\* Python's None; a value that may be None is <<>> or the one-element <<v>>
None == <<>>
Some(v) == <<v>>

\* the number of characters of the text kept as raw_text (text[:500])
RawTextLimit == 500

\* the four categories (주일미사, 평일미사, 토요미사, 기타), in the insertion order of the
\* result dict
c_sunday   == "juil_misa"
c_weekday  == "pyeongil_misa"
c_saturday == "toyo_misa"
c_other    == "gita"
Categories == <<c_sunday, c_weekday, c_saturday, c_other>>
CategorySet == {c_sunday, c_weekday, c_saturday, c_other}

d_wol  == <<50900>>          \* "월"
d_hwa  == <<54868>>          \* "화"
d_su   == <<49688>>          \* "수"
d_mok  == <<47785>>          \* "목"
d_geum == <<44552>>          \* "금"
d_to   == <<53664>>          \* "토"
d_il   == <<51068>>          \* "일"
d_juil == <<51452, 51068>>   \* "주일"
k_yoil == <<50836, 51068>>   \* "요일"
k_misa == <<48120, 49324>>   \* "미사"
k_ojeon == <<50724, 51204>>  \* "오전"
k_ohu   == <<50724, 54980>>  \* "오후"
k_maeil == <<47588, 51068>>  \* "매일"
m_sunday  == <<91, 51452, 51068, 48120, 49324, 93>>   \* "[주일미사]"
m_weekday == <<91, 54217, 51068, 48120, 49324, 93>>   \* "[평일미사]"

IsDigit(c) == c \in 48..57

\* the length of the match of \d{1,2}:\d{2} that starts at position i of s, 0 when
\* there is none
TimeLenAt(s, i) ==
    IF /\ i + 4 <= Len(s) /\ IsDigit(s[i]) /\ IsDigit(s[i + 1]) /\ s[i + 2] = 58
       /\ IsDigit(s[i + 3]) /\ IsDigit(s[i + 4])
    THEN 5
    ELSE IF /\ i + 3 <= Len(s) /\ IsDigit(s[i]) /\ s[i + 1] = 58
            /\ IsDigit(s[i + 2]) /\ IsDigit(s[i + 3])
    THEN 4
    ELSE 0

\* the position of the ")" closing \([^)]+\) when that pattern matches at position j
\* of s, 0 when it does not
ParenEndAt(s, j) ==
    IF j <= Len(s) /\ s[j] = 40 /\ \E p \in (j + 1)..Len(s) : s[p] = 41
    THEN LET p == CHOOSE q \in (j + 1)..Len(s) :
                      s[q] = 41 /\ \A r \in (j + 1)..(q - 1) : s[r] /= 41
         IN  IF p >= j + 2 THEN p ELSE 0
    ELSE 0

\* the first position >= j of s that holds no whitespace (\s*)
RECURSIVE SkipSpaces(_, _)
SkipSpaces(s, j) == IF j <= Len(s) /\ IsSpace(s[j]) THEN SkipSpaces(s, j + 1) ELSE j

\* text.split(sep) for a one-character separator
RECURSIVE Split(_, _)
Split(s, sep) ==
    IF \E i \in 1..Len(s) : s[i] = sep
    THEN LET i == CHOOSE j \in 1..Len(s) : s[j] = sep /\ \A r \in 1..(j - 1) : s[r] /= sep
         IN  <<SubSeq(s, 1, i - 1)>> \o Split(From(s, i + 1), sep)
    ELSE <<s>>

\* str.lower() (only ASCII letters change)
Lower(s) == [i \in 1..Len(s) |-> IF s[i] \in 65..90 THEN s[i] + 32 ELSE s[i]]

\* the key f"{시간}|{설명}" the parsers deduplicate by
DedupKey(e) == e.time \o <<124>> \o e.desc

\* a list left as it is, entries with an earlier entry's key included
UniqueKeepsAll(items, seen) == items

\* the list without the entries whose key an earlier entry has
RECURSIVE Unique(_, _)
Unique(items, seen) ==
    IF items = <<>> THEN <<>>
    ELSE IF DedupKey(items[1]) \in seen THEN Unique(Tail(items), seen)
    ELSE <<items[1]>> \o Unique(Tail(items), seen \cup {DedupKey(items[1])})

(***************************************************************************)
(* Flat format (parse_mass_times_from_text without section markers)        *)
(***************************************************************************)

\* _classify_mass: the category of an entry, from its keyword source
_classify_mass(keyword_source) ==
    LET k == Lower(keyword_source)
    IN  IF \E w \in { d_juil, <<51068, 50836, 51068>>, <<44368, 51473>>,
                      <<52397, 45380>>, <<52397, 49548, 45380>> } : IsIn(w, k)
        THEN c_sunday                   \* 주일, 일요일, 교중, 청년, 청소년
        ELSE IF \E w \in { <<53664, 50836>>, d_to, <<53945, 51204>> } : IsIn(w, k)
        THEN c_saturday                 \* 토요, 토, 특전
        ELSE IF \E w \in { <<54217, 51068>>, d_wol, d_hwa, d_su, d_mok, d_geum } : IsIn(w, k)
        THEN c_weekday                  \* 평일, 월, 화, 수, 목, 금
        ELSE c_other

\* the position of the ")" that ends the match of (\d{1,2}:\d{2})\s*\(([^)]+)\) at
\* position i of s, 0 when the pattern does not match there
Pattern1EndAt(s, i) ==
    IF TimeLenAt(s, i) > 0 THEN ParenEndAt(s, SkipSpaces(s, i + TimeLenAt(s, i))) ELSE 0

\* re.findall(r'(\d{1,2}:\d{2})\s*\(([^)]+)\)', s) from position i on: the
\* (time, description) pairs, with the category each is classified into
RECURSIVE FindPattern1(_, _)
FindPattern1(s, i) ==
    IF \A k \in i..Len(s) : Pattern1EndAt(s, k) = 0 THEN <<>>
    ELSE LET k == CHOOSE n \in i..Len(s) :
                      Pattern1EndAt(s, n) > 0 /\ \A m \in i..(n - 1) : Pattern1EndAt(s, m) = 0
             t == TimeLenAt(s, k)
             j == SkipSpaces(s, k + t)
             p == Pattern1EndAt(s, k)
         IN  <<[cat  |-> _classify_mass(SubSeq(s, j + 1, p - 1)),
                time |-> SubSeq(s, k, k + t - 1),
                desc |-> SubSeq(s, j + 1, p - 1)]>> \o FindPattern1(s, p + 1)

\* re.findall(r'(\d{1,2}:\d{2})', s) from position i on
RECURSIVE FindTimes(_, _)
FindTimes(s, i) ==
    IF \A k \in i..Len(s) : TimeLenAt(s, k) = 0 THEN <<>>
    ELSE LET k == CHOOSE n \in i..Len(s) :
                      TimeLenAt(s, n) > 0 /\ \A m \in i..(n - 1) : TimeLenAt(s, m) = 0
         IN  <<SubSeq(s, k, k + TimeLenAt(s, k) - 1)>> \o FindTimes(s, k + TimeLenAt(s, k))

\* the day list of pattern 2, in the order the source scans it
FlatDays == <<d_wol, d_hwa, d_su, d_mok, d_geum, d_to, d_juil, d_il>>

\* the entries pattern 2 adds for one line
Pattern2Line(raw_line) ==
    LET line  == Strip(raw_line)
        times == FindTimes(line, 1)
        hit   == {n \in 1..Len(FlatDays) : StartsWith(line, FlatDays[n])}
    IN  IF line = <<>> \/ hit = {} \/ times = <<>> THEN <<>>
        ELSE LET day_found == FlatDays[CHOOSE n \in hit : \A m \in hit : n <= m]
             IN  [n \in 1..Len(times) |->
                    [cat  |-> _classify_mass(day_found),
                     time |-> times[n],
                     desc |-> day_found \o k_yoil \o <<32>> \o times[n] \o <<32>> \o k_misa]]

RECURSIVE Pattern2(_)
Pattern2(lines) ==
    IF lines = <<>> THEN <<>> ELSE Pattern2Line(lines[1]) \o Pattern2(Tail(lines))

\* the entries of one category, in order, without the cat tag
RECURSIVE OfCategory(_, _)
OfCategory(entries, cat) ==
    IF entries = <<>> THEN <<>>
    ELSE (IF entries[1].cat = cat
          THEN <<[time |-> entries[1].time, desc |-> entries[1].desc]>> ELSE <<>>)
         \o OfCategory(Tail(entries), cat)

\* the flat branch of parse_mass_times_from_text
ParseFlat(text) ==
    LET found  == FindPattern1(text, 1) \o Pattern2(Split(text, 10))
        lists  == [c \in CategorySet |-> Unique(OfCategory(found, c), {})]
        keys   == {c \in CategorySet : lists[c] /= <<>>}
                  \cup (IF Prefix(text, RawTextLimit) /= <<>> THEN {"raw_text"} ELSE {})
        result == [k \in keys |-> IF k = "raw_text" THEN Prefix(text, RawTextLimit) ELSE lists[k]]
    IN  IF Cardinality(keys) > 1 THEN Some(result) ELSE None

(***************************************************************************)
(* Temporal normalizer                                                     *)
(***************************************************************************)

\* int(s) for a non-empty string of ASCII digits
RECURSIVE ToInt(_)
ToInt(s) == IF s = <<>> THEN 0 ELSE 10 * ToInt(SubSeq(s, 1, Len(s) - 1)) + (s[Len(s)] - 48)

IsNumber(s) == s /= <<>> /\ \A i \in 1..Len(s) : IsDigit(s[i])

\* str(n) for n >= 0
RECURSIVE ToDec(_)
ToDec(n) == IF n < 10 THEN <<48 + n>> ELSE ToDec(n \div 10) \o <<48 + (n % 10)>>

\* f"{n:02d}"
Format02d(n) == IF n < 10 THEN <<48, 48 + n>> ELSE ToDec(n)

\* a normalizer that adds 12 to every afternoon hour up to 12, noon included
NormalizeNoonShifted(time_str, ampm) ==
    IF ampm = None \/ ampm[1] = <<>> THEN time_str
    ELSE LET parts == Split(time_str, 58)
         IN  IF Len(parts) = 2 /\ IsNumber(parts[1]) /\ IsNumber(parts[2])
             THEN LET hour   == ToInt(parts[1])
                      minute == ToInt(parts[2])
                      h      == IF ampm[1] = k_ohu /\ hour <= 12 THEN hour + 12
                                ELSE IF ampm[1] = k_ojeon /\ hour = 12 THEN 0
                                ELSE hour
                  IN  Format02d(h) \o <<58>> \o Format02d(minute)
             ELSE time_str

\* normalize_time(time_str, ampm); ampm is None or Some(marker)
normalize_time(time_str, ampm) ==
    IF ampm = None \/ ampm[1] = <<>> THEN time_str
    ELSE LET parts == Split(time_str, 58)
         IN  IF Len(parts) = 2 /\ IsNumber(parts[1]) /\ IsNumber(parts[2])
             THEN LET hour   == ToInt(parts[1])
                      minute == ToInt(parts[2])
                      h      == IF ampm[1] = k_ohu /\ hour < 12 THEN hour + 12
                                ELSE IF ampm[1] = k_ojeon /\ hour = 12 THEN 0
                                ELSE hour
                  IN  Format02d(h) \o <<58>> \o Format02d(minute)
             ELSE time_str

\* the list weekdays of expand_days
Weekdays == <<d_wol, d_hwa, d_su, d_mok, d_geum, d_to, d_il, d_juil>>

\* list.index(x), 0 for the ValueError of a missing x
IndexOf(list, x) ==
    IF \E n \in 1..Len(list) : list[n] = x
    THEN CHOOSE n \in 1..Len(list) : list[n] = x /\ \A m \in 1..(n - 1) : list[m] /= x
    ELSE 0

\* expand_days(day_expression)
expand_days(day_expression) ==
    IF IsIn(k_maeil, day_expression)
    THEN <<d_wol, d_hwa, d_su, d_mok, d_geum, d_to, d_juil>>
    ELSE IF IsIn(<<45>>, day_expression)
    THEN LET parts == Split(day_expression, 45)
         IN  IF Len(parts) /= 2 THEN <<day_expression>>
             ELSE LET start == IF parts[1] = d_il THEN d_juil ELSE parts[1]
                      end   == IF parts[2] = d_il THEN d_juil ELSE parts[2]
                      s_idx == IndexOf(Weekdays, start)
                      e_idx == IndexOf(Weekdays, end)
                  IN  IF s_idx = 0 \/ e_idx = 0 THEN <<day_expression>>
                      ELSE SubSeq(Weekdays, s_idx, e_idx)
    ELSE <<day_expression>>

(***************************************************************************)
(* Sectioned format (_parse_daegu_style)                                   *)
(***************************************************************************)

\* the character class [월화수목금토일주일]
DayClass == {50900, 54868, 49688, 47785, 44552, 53664, 51068, 51452}

\* the position of the "-" that ends the match of word\s*- at position i of s, 0
\* when the pattern does not match there
DashAfter(s, word, i) ==
    IF /\ i + Len(word) - 1 <= Len(s)
       /\ SubSeq(s, i, i + Len(word) - 1) = word
       /\ SkipSpaces(s, i + Len(word)) <= Len(s)
       /\ s[SkipSpaces(s, i + Len(word))] = 45
    THEN SkipSpaces(s, i + Len(word))
    ELSE 0

\* re.sub(r'(word\s*-)', r'\n\1', s), from one match to the next
RECURSIVE BreakBefore(_, _)
BreakBefore(s, word) ==
    IF \A i \in 1..Len(s) : DashAfter(s, word, i) = 0 THEN s
    ELSE LET i == CHOOSE n \in 1..Len(s) :
                      DashAfter(s, word, n) > 0 /\ \A m \in 1..(n - 1) : DashAfter(s, word, m) = 0
         IN  SubSeq(s, 1, i - 1) \o <<10>> \o SubSeq(s, i, DashAfter(s, word, i))
             \o BreakBefore(From(s, DashAfter(s, word, i) + 1), word)

\* the text with the line breaks _parse_daegu_style inserts
Normalized(text) ==
    LET a == Replace(text, m_sunday, <<10>> \o m_sunday \o <<10>>)
        b == Replace(a, m_weekday, <<10>> \o m_weekday \o <<10>>)
        c == BreakBefore(b, d_to \o k_yoil)
    IN  BreakBefore(c, d_juil)

\* desc.strip('()')
RECURSIVE StripParens(_)
StripParens(s) ==
    IF s /= <<>> /\ s[1] \in {40, 41} THEN StripParens(From(s, 2))
    ELSE IF s /= <<>> /\ s[Len(s)] \in {40, 41} THEN StripParens(SubSeq(s, 1, Len(s) - 1))
    ELSE s

\* the token of token_pattern that matches at position i of s: its kind and length
\* (kind "none" when no alternative matches there)
TokenAt(s, i) ==
    IF StartsWith(From(s, i), k_ojeon) \/ StartsWith(From(s, i), k_ohu)
    THEN [kind |-> "ampm", len |-> 2]
    ELSE IF /\ i + 2 <= Len(s) /\ s[i] \in DayClass /\ s[i + 1] = 45
            /\ s[i + 2] \in DayClass
    THEN [kind |-> "day_range", len |-> 3]
    ELSE IF /\ i <= Len(s) /\ s[i] \in DayClass
            /\ ~(i + 1 <= Len(s) /\ s[i + 1] \in {50836, 51008, 45716})   \* (?!요|은|는)
    THEN [kind |-> "day", len |-> 1]
    ELSE IF TimeLenAt(s, i) > 0
    THEN [kind |-> "time", len |-> TimeLenAt(s, i)]
    ELSE IF ParenEndAt(s, i) > 0
    THEN [kind |-> "desc", len |-> ParenEndAt(s, i) - i + 1]
    ELSE [kind |-> "none", len |-> 1]

\* the entries a time token adds: one per day of days_to_apply
NewEntries(section, days, final_time) ==
    LET days_to_apply == IF days = <<>> /\ section = c_sunday THEN <<d_juil>> ELSE days
    IN  [n \in 1..Len(days_to_apply) |->
            LET d == days_to_apply[n]
                c1 == IF d = d_to /\ section = c_sunday THEN c_saturday ELSE section
                c2 == IF c1 = c_weekday /\ d = d_juil THEN c_sunday ELSE c1
            IN  [cat |-> c2, time |-> final_time, desc |-> <<>>, day |-> d]]

\* one pass of the token loop, for the token of the given kind and text.  st holds
\* current_ampm, current_days, the entries added so far (all categories, in order)
\* and the positions in them of last_added_entries
TokenStep(kind, lex, section, st) ==
    CASE kind = "ampm" -> [st EXCEPT !.ampm = Some(lex)]
      [] kind = "day_range" -> [st EXCEPT !.days = expand_days(lex)]
      [] kind = "day" -> [st EXCEPT !.days = <<lex>>]
      [] kind = "time" ->
           LET new == NewEntries(section, st.days, normalize_time(lex, st.ampm))
           IN  [st EXCEPT !.entries = @ \o new,
                          !.last = (Len(st.entries) + 1)..(Len(st.entries) + Len(new))]
      [] kind = "desc" ->
           LET clean_desc == StripParens(lex)
           IN  [st EXCEPT !.entries =
                   [n \in 1..Len(@) |->
                       IF n \in st.last
                       THEN [@[n] EXCEPT !.desc =
                               IF @ /= <<>> THEN @ \o <<32>> \o clean_desc
                               ELSE clean_desc]
                       ELSE @[n]]]
      [] OTHER -> st

\* the token loop (token_pattern.finditer) over one line, the token at position i
\* being tok
RECURSIVE ScanFrom(_, _, _, _, _)
ScanFrom(s, i, tok, section, st) ==
    IF i > Len(s) THEN st
    ELSE ScanFrom(s, i + tok.len, TokenAt(s, i + tok.len), section,
                  TokenStep(tok.kind, SubSeq(s, i, i + tok.len - 1), section, st))

ScanTokens(s, i, section, st) == ScanFrom(s, i, TokenAt(s, i), section, st)

\* one pass of the loop over the lines: acc holds current_section and the entries
ScanLine(raw_line, acc) ==
    LET line == Strip(raw_line)
    IN  IF line = <<>> THEN acc
        ELSE IF IsIn(m_sunday, line) THEN [acc EXCEPT !.section = c_sunday]
        ELSE IF IsIn(m_weekday, line) THEN [acc EXCEPT !.section = c_weekday]
        ELSE LET clean_line == Replace(Replace(line, d_to \o k_yoil, d_to),
                                       d_il \o k_yoil, d_juil)
             IN  [acc EXCEPT !.entries =
                     ScanTokens(clean_line, 1, acc.section,
                                [ampm |-> None, days |-> <<>>,
                                 entries |-> acc.entries, last |-> {}]).entries]

\* the loop over the lines
RECURSIVE ScanLines(_, _)
ScanLines(lines, acc) ==
    IF lines = <<>> THEN acc ELSE ScanLines(Tail(lines), ScanLine(lines[1], acc))

\* filter_keywords: 후원회, 교리, 교정사목
filter_keywords ==
    { <<54980, 50896, 54924>>, <<44368, 47532>>, <<44368, 51221, 49324, 47785>> }

\* the clean-up of one category's entries: drop the filtered ones, prefix the day to
\* a weekday description that lacks it, drop the day field
RECURSIVE CleanEntries(_, _)
CleanEntries(entries, cat) ==
    IF entries = <<>> THEN <<>>
    ELSE LET e == entries[1]
             desc == IF cat = c_weekday /\ ~IsIn(e.day, e.desc)
                     THEN Strip(e.day \o <<32>> \o e.desc) ELSE e.desc
         IN  (IF e.cat /= cat \/ \E kw \in filter_keywords : IsIn(kw, e.desc)
              THEN <<>> ELSE <<[time |-> e.time, desc |-> desc]>>)
             \o CleanEntries(Tail(entries), cat)

\* _parse_daegu_style(text): the result dict
_parse_daegu_style(text) ==
    LET acc   == ScanLines(Split(Normalized(text), 10),
                           [section |-> c_other, entries |-> <<>>])
        lists == [c \in CategorySet |-> Unique(CleanEntries(acc.entries, c), {})]
        keys  == {c \in CategorySet : lists[c] /= <<>>} \cup {"raw_text"}
    IN  [k \in keys |-> IF k = "raw_text" THEN Prefix(text, RawTextLimit) ELSE lists[k]]

\* parse_mass_times_from_text(text): None or Some(result dict)
parse_mass_times_from_text(text) ==
    IF IsIn(m_sunday, text) \/ IsIn(m_weekday, text)
    THEN Some(_parse_daegu_style(text))
    ELSE ParseFlat(text)

(***************************************************************************)
(* Site navigators (the diocese handlers)                                  *)
(*                                                                         *)
(* A handler is a function of the church name and of what the site answers *)
(* to the handler's browser calls.  A site record holds these answers:     *)
(*   goto      "ok" | "error"   page.goto / the first wait_for_load_state  *)
(*   selectors the selectors whose locator(...).count() is > 0             *)
(*   submit    "ok" | "error"   fill, submit and the waits after it        *)
(*   wait      "ok" | "timeout" page.wait_for_selector                     *)
(*   body      inner_text("body") of the page after the search             *)
(*   cands     the rows / links the handler scans: text, whether the row   *)
(*             holds a link, and what click() on it does                   *)
(*   cands2    the links of the fallback locator (handle_incheon)          *)
(*   stale     what reading a row does once the page has navigated         *)
(*   settle    "ok" | "timeout" the load wait after a click                *)
(*   stage     the stage whose click raises in handle_busan, or "none"     *)
(*   buckets   the buckets of the alphabetic index that exist              *)
(*   detail    the text of the detail view                                 *)
(* A handler returns its result (None or a dict), the candidates it called *)
(* click() on (in handle_busan: the stages it passed), in order, and the   *)
(* navigation failures it met.                                             *)
(***************************************************************************)

Ret(result, clicks, failures) == [result |-> result, clicks |-> clicks, failures |-> failures]

\* d[k] = v on a dict
With(d, k, v) == [x \in DOMAIN d \cup {k} |-> IF x = k THEN v ELSE d[x]]

\* Python truthiness of an optional dict
Truthy(r) == r /= None /\ DOMAIN r[1] /= {}

\* s.split(sep)[0]
Before(s, sep) == IF IsIn(sep, s) THEN SubSeq(s, 1, Find(sep, s) - 1) ELSE s

\* the text after the first sep, for a sep that occurs in s
After(s, sep) == From(s, Find(sep, s) + Len(sep))

\* if result: result["search_term"] = term; return result
Tagged(result, term) ==
    IF Truthy(result) THEN Some(With(result[1], "search_term", term)) ELSE None

\* the result when there is one, the fallback dict otherwise
OrElse(result, fallback) == IF result /= None THEN result ELSE fallback

\* return result when there is one, go on otherwise
OrReturn(result, clicks, failures, rest) ==
    IF result /= None THEN Ret(result, clicks, failures) ELSE rest

k_result_word == <<44160, 49353, 44208, 44284>>                      \* "검색결과"
k_zero_results == <<44160, 49353, 44208, 44284, 32, 58, 32, 51204, 52404, 32, 48, 44148>>
                                                                     \* "검색결과 : 전체 0건"
k_misa_annae == <<48120, 49324, 50504, 45236>>                       \* "미사안내"
\* the terminators of handle_incheon: 비고, 본당 소식, 수도회, 관할구역
Terminators ==
    << <<48708, 44256>>, <<48376, 45817, 32, 49548, 49885>>, <<49688, 46020, 54924>>,
       <<44288, 54624, 44396, 50669>> >>

\* handle_seoul(page, church_name, post)
handle_seoul(site, church_name) ==
    IF site.goto = "error" THEN Ret(None, <<>>, {"goto"})
    ELSE IF site.selectors \cap {"#srchText", "input.inp"} = {} THEN Ret(None, <<>>, {"input"})
    ELSE IF site.submit = "error" THEN Ret(None, <<>>, {"submit"})
    ELSE LET text_content == site.body
         IN  IF ~IsIn(church_name, text_content) /\ ~IsIn(k_result_word, text_content)
             THEN Ret(None, <<>>, {"link"})
             ELSE Ret(OrElse(Tagged(parse_mass_times_from_text(text_content), church_name),
                             Some([raw_text |-> Prefix(text_content, 1000),
                                   search_term |-> church_name,
                                   parsing_failed |-> TRUE])),
                      <<>>, {})

\* the row loop of handle_suwon from row i on; clicks are the rows clicked so far.
\* A row that names the church and holds a link is clicked; the loop goes on when
\* the row does not match or the parser gave nothing for it
RECURSIVE SuwonRows(_, _, _, _, _)
SuwonRows(site, church_name, i, clicks, failures) ==
    IF i > Len(site.cands)
    THEN Ret(None, clicks, IF clicks = <<>> THEN failures \cup {"link"} ELSE failures)
    ELSE IF clicks /= <<>> /\ site.stale = "error" THEN Ret(None, clicks, failures \cup {"stale"})
    ELSE LET row == site.cands[i]
             hit == IsIn(church_name, row.text) /\ row.link
             clicked == IF hit THEN Append(clicks, i) ELSE clicks
         IN  IF hit /\ row.click = "error"
             THEN Ret(None, clicked, failures \cup {"click"})
             ELSE OrReturn(IF hit
                           THEN Tagged(parse_mass_times_from_text(site.detail), church_name)
                           ELSE None,
                           clicked, failures,
                           SuwonRows(site, church_name, i + 1, clicked, failures))

\* handle_suwon(page, church_name, post)
handle_suwon(site, church_name) ==
    IF site.goto = "error" THEN Ret(None, <<>>, {"goto"})
    ELSE IF site.selectors \cap {"input[name='k']", "input#k"} = {} THEN Ret(None, <<>>, {"input"})
    ELSE IF site.submit = "error" THEN Ret(None, <<>>, {"submit"})
    ELSE IF "table" \notin site.selectors THEN Ret(None, <<>>, {"table"})
    ELSE SuwonRows(site, church_name, 1, <<>>,
                   IF site.wait = "timeout" THEN {"wait"} ELSE {})

\* the link loop of handle_daegu from link i on: the link whose click succeeded
\* (0 when none did) and the links whose click was tried
RECURSIVE DaeguLinks(_, _, _, _)
DaeguLinks(site, search_term, i, tried) ==
    IF i > Len(site.cands) THEN [found |-> 0, tried |-> tried]
    ELSE LET link == site.cands[i]
         IN  IF IsIn(search_term, link.text) /\ Len(link.text) < 20
             THEN IF link.click = "ok" THEN [found |-> i, tried |-> Append(tried, i)]
                  ELSE DaeguLinks(site, search_term, i + 1, Append(tried, i))
             ELSE DaeguLinks(site, search_term, i + 1, tried)

\* handle_daegu(page, church_name, post)
handle_daegu(site, church_name) ==
    IF site.goto = "error" THEN Ret(None, <<>>, {"goto"})
    ELSE IF site.selectors
            \cap {"input#search", "input.church_search_input", "input[name='search']"} = {}
    THEN Ret(None, <<>>, {"input"})
    ELSE IF site.submit = "error" THEN Ret(None, <<>>, {"submit"})
    ELSE LET search_term == Strip(Replace(church_name, k_jugyojwa, <<>>))
             waited == IF site.wait = "timeout" THEN {"wait"} ELSE {}
         IN  IF IsIn(k_zero_results, site.body) THEN Ret(None, <<>>, {"link"})
             ELSE LET scan == DaeguLinks(site, search_term, 1, <<>>)
                  IN  IF scan.found = 0
                      THEN Ret(None, scan.tried,
                               waited \cup (IF scan.tried = <<>> THEN {"link"} ELSE {"click"}))
                      ELSE Ret(Tagged(parse_mass_times_from_text(site.detail), search_term),
                               scan.tried, waited)

\* the first of the positions hits of a list (where the loop breaks), 0 when there is
\* none
FirstLink(hits) == IF hits = {} THEN 0 ELSE CHOOSE n \in hits : \A m \in hits : n <= m

\* the text handle_incheon hands to the parser: what follows the first 미사안내, up to
\* the next one, cut at each terminator in turn
RECURSIVE CutAt(_, _)
CutAt(text, terms) ==
    IF terms = <<>> THEN text ELSE CutAt(Before(text, terms[1]), Tail(terms))

IncheonTarget(body_text) == CutAt(Before(After(body_text, k_misa_annae), k_misa_annae), Terminators)

\* the two tests of handle_incheon's link loop
IncheonExact(link, target_name) == Strip(link.text) = target_name
IncheonClose(link, target_name) ==
    /\ IsIn(target_name, Strip(link.text))
    /\ Len(Strip(link.text)) < Len(target_name) + 5

\* a link loop without its break: the last link that passes either test
IncheonFindLast(links, target_name) ==
    LET hits == {n \in 1..Len(links) :
                    IncheonExact(links[n], target_name) \/ IncheonClose(links[n], target_name)}
    IN  IF hits = {} THEN 0 ELSE CHOOSE n \in hits : \A m \in hits : m <= n

\* handle_incheon's link loop: the first link whose text is the name, else the first
\* one that holds the name and is less than 5 characters longer; 0 when there is none
IncheonFind(links, target_name) ==
    LET exact == {n \in 1..Len(links) : IncheonExact(links[n], target_name)}
        close == {n \in 1..Len(links) : IncheonClose(links[n], target_name)}
    IN  IF exact /= {} THEN FirstLink(exact) ELSE FirstLink(close)

\* the links handle_incheon scans: those of the table, else all of the page
IncheonLinks(site) == IF site.cands /= <<>> THEN site.cands ELSE site.cands2

\* handle_incheon(page, church_name, post)
handle_incheon(site, church_name) ==
    IF site.goto = "error" THEN Ret(None, <<>>, {"goto"})
    ELSE LET target_name == Strip(Replace(church_name, k_seongdang, <<>>))
             links == IncheonLinks(site)
             found == IncheonFind(links, target_name)
         IN  IF found = 0 THEN Ret(None, <<>>, {"link"})
             ELSE IF links[found].click = "error" THEN Ret(None, <<found>>, {"click"})
             ELSE LET body_text == site.detail
                      waited == IF site.settle = "timeout" THEN {"settle"} ELSE {}
                  IN  Ret(OrElse(Tagged(IF IsIn(k_misa_annae, body_text)
                                        THEN parse_mass_times_from_text(IncheonTarget(body_text))
                                        ELSE None,
                                        church_name),
                                 Some([raw_text |-> Prefix(body_text, 1000),
                                       search_term |-> church_name])),
                          <<found>>, waited)

\* the list CHOSUNG of get_chosung: the 19 leading consonants
CHOSUNG ==
    <<12593, 12594, 12596, 12599, 12600, 12601, 12609, 12610, 12611, 12613, 12614,
      12615, 12616, 12617, 12618, 12619, 12620, 12621, 12622>>

\* get_chosung(text): None or Some(consonant)
get_chosung(text) ==
    IF text = <<>> THEN None
    ELSE LET code == text[1] - 44032
         IN  IF code < 0 \/ code > 11171 THEN None ELSE Some(CHOSUNG[(code \div 588) + 1])

\* the dict mapping of handle_busan: consonant -> bucket (14 buckets)
BusanMapping ==
    [c \in {CHOSUNG[n] : n \in 1..19} |->
        CASE c \in {12593, 12594} -> 0
          [] c = 12596 -> 1
          [] c \in {12599, 12600} -> 2
          [] c = 12601 -> 3
          [] c = 12609 -> 4
          [] c \in {12610, 12611} -> 5
          [] c \in {12613, 12614} -> 6
          [] c = 12615 -> 7
          [] c \in {12616, 12617} -> 8
          [] c = 12618 -> 9
          [] c = 12619 -> 10
          [] c = 12620 -> 11
          [] c = 12621 -> 12
          [] OTHER -> 13]

\* a click on the church's entry whose failure is passed over
BusanDetailClickIgnored(site, church_name, failures) ==
    IF "#misaContent" \notin site.selectors
    THEN Ret(None, <<"mode", "bucket", "entity">>, failures \cup {"content"})
    ELSE Ret(Tagged(parse_mass_times_from_text(site.detail), church_name),
             <<"mode", "bucket", "entity", "extract">>, failures)

\* handle_busan from the click on the church's entry on
BusanDetail(site, church_name, failures) ==
    IF site.stage = "entity" THEN Ret(None, <<"mode", "bucket">>, failures \cup {"click"})
    ELSE IF "#misaContent" \notin site.selectors
    THEN Ret(None, <<"mode", "bucket", "entity">>, failures \cup {"content"})
    ELSE Ret(Tagged(parse_mass_times_from_text(site.detail), church_name),
             <<"mode", "bucket", "entity", "extract">>, failures)

\* a wait whose timeout is passed over, the way handle_suwon's and handle_daegu's are
BusanWaitIgnored(site, church_name) ==
    BusanDetail(site, church_name, IF site.wait = "timeout" THEN {"wait"} ELSE {})

\* handle_busan's wait for the church's entry: a timeout ends the call
BusanWait(site, church_name) ==
    IF site.wait = "timeout" THEN Ret(None, <<"mode", "bucket">>, {"wait"})
    ELSE BusanDetail(site, church_name, {})

\* handle_busan(page, church_name, post); clicks are the stages passed
handle_busan(site, church_name) ==
    IF site.goto = "error" THEN Ret(None, <<>>, {"goto"})
    ELSE IF "#ganadaTab" \notin site.selectors THEN Ret(None, <<>>, {"tab"})
    ELSE IF site.stage = "mode" THEN Ret(None, <<>>, {"click"})
    ELSE LET target_name == Strip(Replace(church_name, k_seongdang, <<>>))
             chosung == get_chosung(target_name)
         IN  IF chosung = None \/ chosung[1] \notin DOMAIN BusanMapping
             THEN Ret(None, <<"mode">>, {"chosung"})
             ELSE IF BusanMapping[chosung[1]] \notin site.buckets
             THEN Ret(None, <<"mode">>, {"bucket"})
             ELSE IF site.stage = "bucket" THEN Ret(None, <<"mode">>, {"click"})
             ELSE BusanWait(site, church_name)

\* await handler(page, church_name, post)
Handle(handler, site, church_name) ==
    CASE handler = "handle_seoul" -> handle_seoul(site, church_name)
      [] handler = "handle_suwon" -> handle_suwon(site, church_name)
      [] handler = "handle_daegu" -> handle_daegu(site, church_name)
      [] handler = "handle_incheon" -> handle_incheon(site, church_name)
      [] handler = "handle_busan" -> handle_busan(site, church_name)

(***************************************************************************)
(* Sites, texts and church names the handlers are run on                   *)
(***************************************************************************)

n_myeongdong == <<47749, 46041>>                       \* "명동"
n_gajeong    == <<44032, 51221>>                       \* "가정"
n_gyesan     == <<44228, 49328, 51452, 44368, 51340>>  \* "계산주교좌"
n_abc        == <<65, 66, 67>>                         \* "ABC"

\* "명동 10:00 (교중) 19:00 (평일)": flat, two categories
t_flat2 == n_myeongdong \o <<32, 49, 48, 58, 48, 48, 32, 40, 44368, 51473, 41, 32,
                              49, 57, 58, 48, 48, 32, 40, 54217, 51068, 41>>
\* "명동 10:00 (교중)": flat, one category
t_flat1 == n_myeongdong \o <<32, 49, 48, 58, 48, 48, 32, 40, 44368, 51473, 41>>
\* "명동 검색결과": no time at all
t_junk == n_myeongdong \o <<32>> \o k_result_word
\* "명동 [주일미사]": a section marker and no time
t_sect0 == n_myeongdong \o <<32>> \o m_sunday
\* "명동 [주일미사] 9:00"
t_sect1 == n_myeongdong \o <<32>> \o m_sunday \o <<32, 57, 58, 48, 48>>
\* "공지": neither the name nor 검색결과
t_notice == <<44277, 51648>>
\* "미사안내 10:00 (교중) 7:00 (평일) 비고 8:00 (특전)"
t_annae2 == k_misa_annae \o <<32, 49, 48, 58, 48, 48, 32, 40, 44368, 51473, 41, 32,
                              55, 58, 48, 48, 32, 40, 54217, 51068, 41, 32>>
            \o Terminators[1] \o <<32, 56, 58, 48, 48, 32, 40, 53945, 51204, 41>>
\* "미사안내 없음"
t_annae0 == k_misa_annae \o <<32, 50630, 51020>>

\* the largest number of rows / links of a scanned list
MaxCands == 2

SeqsUpTo(S, n) == UNION {[1..m -> S] : m \in 0..n}

\* a site where every call succeeds, every selector exists and nothing is listed
BaseSite ==
    [goto |-> "ok",
     selectors |-> {"#srchText", "input.inp", "input[name='k']", "input#k", "table",
                    "input#search", "input.church_search_input", "input[name='search']",
                    "#ganadaTab", "#misaContent"},
     submit |-> "ok", wait |-> "ok", body |-> <<>>, cands |-> <<>>, cands2 |-> <<>>,
     stale |-> "same", settle |-> "ok", stage |-> "none", buckets |-> 0..13,
     detail |-> <<>>]

\* the selectors of a handler's search input, entry affordance and content
SelectorsOf(handler) ==
    CASE handler = "handle_seoul" -> {"#srchText", "input.inp"}
      [] handler = "handle_suwon" -> {"input[name='k']", "input#k", "table"}
      [] handler = "handle_daegu" ->
            {"input#search", "input.church_search_input", "input[name='search']"}
      [] handler = "handle_incheon" -> {}
      [] handler = "handle_busan" -> {"#ganadaTab", "#misaContent"}

\* 20 characters that hold no name
LongTail == [n \in 1..20 |-> 46]

\* the rows / links a list may hold for a search term
CandsOf(handler, term) ==
    LET texts == CASE handler = "handle_suwon" -> {term \o <<32, 49>>, t_notice}
                   [] handler = "handle_daegu" -> {term, term \o LongTail, t_notice}
                   [] OTHER -> {<<32>> \o term, term \o <<40, 51456, 41>>,
                                term \o LongTail, t_notice}
    IN  [text : texts,
         link : IF handler = "handle_suwon" THEN BOOLEAN ELSE {TRUE},
         click : {"ok", "error"}]

\* the sites a handler is run on, with lists of at most n candidates: each way the
\* entry steps fail, and every combination of answers once they succeeded
SitesOf(handler, term, n) ==
    {[BaseSite EXCEPT !.goto = "error"], [BaseSite EXCEPT !.submit = "error"]}
    \cup {[BaseSite EXCEPT !.selectors = sel] : sel \in SUBSET SelectorsOf(handler)}
    \cup CASE handler = "handle_seoul" ->
                {[BaseSite EXCEPT !.body = b] :
                    b \in {t_flat2, t_flat1, t_junk, t_sect0, t_sect1, t_notice, <<>>}}
           [] handler = "handle_suwon" ->
                {[BaseSite EXCEPT !.wait = w, !.stale = st, !.detail = d, !.cands = c] :
                    w \in {"ok", "timeout"}, st \in {"same", "error"},
                    d \in {t_flat2, t_junk, t_sect0},
                    c \in SeqsUpTo(CandsOf(handler, term), n)}
           [] handler = "handle_daegu" ->
                {[BaseSite EXCEPT !.wait = w, !.body = b, !.detail = d, !.cands = c] :
                    w \in {"ok", "timeout"}, b \in {t_junk, k_zero_results},
                    d \in {t_flat2, t_junk, t_sect1},
                    c \in SeqsUpTo(CandsOf(handler, term), n)}
           [] handler = "handle_incheon" ->
                {[BaseSite EXCEPT !.settle = w, !.detail = d, !.cands = c, !.cands2 = c2] :
                    w \in {"ok", "timeout"}, d \in {t_annae2, t_annae0, t_flat2, <<>>},
                    c \in SeqsUpTo(CandsOf(handler, term), n),
                    c2 \in {<<>>, <<[text |-> term, link |-> TRUE, click |-> "ok"]>>}}
           [] handler = "handle_busan" ->
                {[BaseSite EXCEPT !.wait = w, !.stage = g, !.buckets = b, !.detail = d] :
                    w \in {"ok", "timeout"}, g \in {"none", "mode", "bucket", "entity"},
                    b \in {{}, 0..13}, d \in {t_flat2, t_junk, t_sect0}}

ChurchNames == {n_myeongdong, n_gajeong, n_gyesan, n_abc}

(***************************************************************************)
(* Repair run: the input                                                   *)
(***************************************************************************)

\* a JSON value of a post: a string or null (a missing key reads as the default '')
JStr(str) == [t |-> "str", s |-> str]
JNull == [t |-> "null", s |-> <<>>]

\* the posts a batch file may hold
Posts ==
    { \* church_name null
      [church_name |-> JNull, diocese |-> JStr(k_seoul \o k_daegyogu), address |-> JStr(<<>>)],
      \* "성당": no name is left
      [church_name |-> JStr(k_seongdang), diocese |-> JStr(k_seoul \o k_daegyogu),
       address |-> JStr(<<>>)],
      \* no diocese, and an address ("안동") no rule matches
      [church_name |-> JStr(n_myeongdong \o k_seongdang), diocese |-> JStr(<<>>),
       address |-> JStr(<<50504, 46041>>)],
      \* "전주교구": a diocese without a handler
      [church_name |-> JStr(n_myeongdong \o k_seongdang),
       diocese |-> JStr(<<51204, 51452>> \o k_gyogu), address |-> JStr(<<>>)],
      \* "천주교 서울대교구"
      [church_name |-> JStr(n_myeongdong \o k_seongdang),
       diocese |-> JStr(k_cheonjugyo \o <<32>> \o k_seoul \o k_daegyogu),
       address |-> JStr(<<>>)],
      \* no diocese, address "경기 부천": 인천교구 by inference
      [church_name |-> JStr(n_gajeong \o k_seongdang), diocese |-> JNull,
       address |-> JStr(k_gyeonggi \o <<32, 48512, 52380>>)] }

\* the largest number of posts the files of INPUT_DIR hold, all together
MaxPosts == 2

\* what json.load gives for a batch file: an error, or a list of posts
FileContents ==
    {[ok |-> FALSE, posts |-> <<>>]} \cup {[ok |-> TRUE, posts |-> p] : p \in SeqsUpTo(Posts, MaxPosts)}

\* file names, as the pieces the glob patterns tell apart
f_failed1 == <<"failed_", "posts_batch_", "1", ".json">>
f_failed2 == <<"failed_", "posts_batch_", "2", ".json">>
f_fresh1  == <<"posts_batch_", "1", ".json">>
f_other   == <<"repaired_", "posts_batch_", "1", ".json">>
FileNames == {f_failed1, f_failed2, f_fresh1, f_other}

\* the directories the run starts on: any of the batch files, next to a file that is
\* no batch
Dirs == {d \cup {f_other} : d \in SUBSET {f_failed1, f_failed2, f_fresh1}}

\* Path.glob(pattern) for a pattern with one "*": the names of the directory that
\* start with what precedes the "*" and end with what follows it
Glob(dir, before, after) ==
    {name \in dir :
        /\ Len(name) >= Len(before) + Len(after)
        /\ SubSeq(name, 1, Len(before)) = before
        /\ SubSeq(name, Len(name) - Len(after) + 1, Len(name)) = after}

\* '*.json': a second pattern that is not anchored at the prefix
AnyBatches(dir) == Glob(dir, <<>>, <<".json">>)

\* 'failed_posts_batch_*.json' and 'posts_batch_*.json'
FailedBatches(dir) == Glob(dir, <<"failed_", "posts_batch_">>, <<".json">>)
FreshBatches(dir) == Glob(dir, <<"posts_batch_">>, <<".json">>)

\* the orders in which a glob may yield a set of names
Orders(S) ==
    IF S = {} THEN {<<>>}
    ELSE {f \in [1..Cardinality(S) -> S] : \A x \in S : \E n \in DOMAIN f : f[n] = x}

\* the values of process_files' limit: None or a number
Limits == {None, Some(1)}

(***************************************************************************)
(* Repair run: the state                                                   *)
(***************************************************************************)

VARIABLES
    input_dir,       \* the names of the files in INPUT_DIR
    limit,           \* the limit argument of process_files
    files,           \* the list of files process_files built
    fpos,            \* the position in files of the file being processed
    pc,              \* where the run is
    posts,           \* posts_to_process of the file being processed
    idx,             \* the position in posts of the post being processed
    repaired_posts,  \* positions in posts of the posts appended to repaired_posts
    failed_posts,    \* positions in posts of the posts appended to failed_posts
    stats,           \* self.stats
    pages,           \* the number of open pages of the browser context
    cur,             \* church_name and handler of the post being processed
    result_data,     \* what the handler returned
    nav,             \* the handler call: handler, church name, site, return
    out_dir,         \* the files written to OUTPUT_DIR: name and content
    started,         \* the files process_single_file was called on, in order
    finished,        \* the files process_single_file returned from
    invoked,         \* the posts of this file a handler was invoked for
    counted,         \* per started file, how many posts were counted as success
    loaded,          \* how many posts json.load has returned so far
    fn_call,         \* the call of a function of the module made on its own
    returned         \* what that call returned: None before it did, Some(value) after

\* the state of the list crawler (src/crawler/crawler.py, GoodNewsCrawler)
VARIABLES
    max_pages,           \* self.max_pages
    max_items,           \* self.max_items
    test_mode,           \* self.test_mode
    ctor_args,           \* the arguments the crawler was constructed with
    collected_data,      \* self.collected_data
    missing_mass_times,  \* self.missing_mass_times
    collected_orgnums,   \* self.collected_orgnums
    skipped_count,       \* self.skipped_count
    data_file,           \* the records of data/catholic_data.json, <<>> without the file
    missing_file,        \* the records of data/missing_mass_times.json
    crawl_pc,            \* where the crawler is
    run_args,            \* the arguments of run()
    page,                \* page of run()'s outer loop
    items_collected,     \* items_collected of run()
    church_list,         \* church_list of run()
    item_pos,            \* the position in church_list of run()'s inner loop
    request,             \* the _make_request call in progress or just returned
    requests,            \* the requests run() has made, with items_collected at that time
    served,              \* how many items the API has listed in its responses
    saves                \* how often save_data() was called

crawler_vars == <<max_pages, max_items, test_mode, ctor_args, collected_data,
                  missing_mass_times,
                  collected_orgnums, skipped_count, data_file, missing_file, crawl_pc,
                  run_args, page, items_collected, church_list, item_pos, request,
                  requests, served, saves>>

\* the state of the publisher (src/crawler/publisher.py, WordPressPublisher)
VARIABLES
    pub_pc,              \* where the publisher is
    pub_test_mode,       \* self.test_mode
    published_log,       \* self.published_log: orgnum to log entry
    published_file,      \* data/published_log.json: readable or not, and its dict
    pub_stats,           \* self.stats
    candidates,          \* candidates of run()
    cand_pos,            \* the position in candidates of run()'s loop
    pub_max_items,       \* max_items of run(), 0 for None
    wp_posts,            \* the posts WordPress holds, by the orgnum they were made for
    pub_runs             \* how often the publisher was started

publisher_vars == <<pub_pc, pub_test_mode, published_log, published_file, pub_stats,
                    candidates, cand_pos, pub_max_items, wp_posts, pub_runs>>

\* the state of the enricher (src/crawler/enricher.py, ChurchEnricher)
VARIABLES
    enr_pc,              \* where the enricher is
    enr_args,            \* test_mode and force_update of the constructor, max_items of run()
    enriched_file,       \* the records of data/enriched_church_data.json
    enriched_before,     \* the records the file held when run() started
    churches,            \* churches of run(): the raw data as loaded
    existing_enriched,   \* existing_enriched of run(): orgnum to record
    enriched_churches,   \* enriched_churches of run()
    enr_pos,             \* i of run()'s loop, counted from 1
    processed_count,     \* self.processed_count
    enr_skipped_count,   \* self.skipped_count
    failed_count         \* self.failed_count

enricher_vars == <<enr_pc, enr_args, enriched_file, enriched_before, churches,
                   existing_enriched, enriched_churches, enr_pos, processed_count,
                   enr_skipped_count, failed_count>>

\* the state of the other programs of the pipeline
stage_vars == <<crawler_vars, publisher_vars, enricher_vars>>

repair_vars == <<input_dir, limit, files, fpos, pc, posts, idx, repaired_posts,
                 failed_posts, stats, pages, cur, result_data, nav, out_dir, started,
                 finished, invoked, counted, loaded, fn_call, returned>>

vars == <<repair_vars, stage_vars>>

\* no _make_request call
NoRequest == [kind |-> "none", attempt |-> 0, log |-> <<>>, response |-> "idle"]

\* the list crawler is not running
CrawlerOff ==
    /\ max_pages = 0
    /\ max_items = 0
    /\ test_mode = FALSE
    /\ ctor_args = <<>>
    /\ collected_data = <<>>
    /\ missing_mass_times = <<>>
    /\ collected_orgnums = {}
    /\ skipped_count = 0
    /\ missing_file = <<>>
    /\ crawl_pc = "idle"
    /\ run_args = <<>>
    /\ page = 0
    /\ items_collected = 0
    /\ church_list = <<>>
    /\ item_pos = 0
    /\ request = NoRequest
    /\ requests = <<>>
    /\ served = 0
    /\ saves = 0

\* the list crawler is not running and has left no data file
CrawlerIdle == CrawlerOff /\ data_file = <<>>

\* the publisher is not running
PublisherIdle ==
    /\ pub_pc = "idle"
    /\ pub_test_mode = FALSE
    /\ published_log = <<>>
    /\ published_file = [readable |-> TRUE, log |-> <<>>]
    /\ pub_stats = [processed |-> 0, skipped |-> 0, success |-> 0, failed |-> 0]
    /\ candidates = <<>>
    /\ cand_pos = 0
    /\ pub_max_items = 0
    /\ wp_posts = <<>>
    /\ pub_runs = 0

\* the enricher is not running
EnricherOff ==
    /\ enr_pc = "idle"
    /\ enr_args = <<>>
    /\ enriched_before = <<>>
    /\ churches = <<>>
    /\ existing_enriched = <<>>
    /\ enriched_churches = <<>>
    /\ enr_pos = 0
    /\ processed_count = 0
    /\ enr_skipped_count = 0
    /\ failed_count = 0

\* the enricher is not running and has left no enriched file
EnricherIdle == EnricherOff /\ enriched_file = <<>>

\* the other programs of the pipeline are not running
StagesIdle == CrawlerIdle /\ PublisherIdle /\ EnricherIdle

\* no call of a function on its own
NoFn == [fn |-> "none"]

NoCall == [handler |-> NoHandler, church_name |-> <<>>, site |-> BaseSite,
           ret |-> Ret(None, <<>>, {})]
NoCur == [church_name |-> <<>>, handler |-> NoHandler]

\* RepairCrawler.__init__ and start(): empty counters, a context without pages
Init ==
    /\ StagesIdle
    /\ input_dir \in Dirs
    /\ limit \in Limits
    /\ files = <<>>
    /\ fpos = 0
    /\ pc = "start"
    /\ posts = <<>>
    /\ idx = 0
    /\ repaired_posts = <<>>
    /\ failed_posts = <<>>
    /\ stats = [total |-> 0, success |-> 0, failed |-> 0]
    /\ pages = 0
    /\ cur = NoCur
    /\ result_data = None
    /\ nav = NoCall
    /\ out_dir = {}
    /\ started = <<>>
    /\ finished = {}
    /\ invoked = {}
    /\ counted = <<>>
    /\ loaded = 0
    /\ fn_call = NoFn
    /\ returned = None

(***************************************************************************)
(* Repair run: process_files and process_single_file                       *)
(***************************************************************************)

\* the texts the sites of the run show
RunTexts(handler) ==
    IF handler = "handle_incheon" THEN {t_annae2, t_annae0} ELSE {t_flat2, t_junk, t_sect0}

\* the sites the run's handler calls are answered from: one whose entry page does
\* not load, and those that show a text and list no entry or the church's one
RunSites(handler, church_name) ==
    {[BaseSite EXCEPT !.goto = "error"]}
    \cup {[BaseSite EXCEPT !.body = t, !.detail = t, !.cands = c] :
            t \in RunTexts(handler),
            c \in {<<>>, <<[text |-> Strip(Replace(church_name, k_seongdang, <<>>)),
                           link |-> TRUE, click |-> "ok"]>>}}

\* the end of process_single_file: on to the next file of process_files' loop
NextFile ==
    /\ finished' = finished \cup {files[fpos]}
    /\ IF fpos < Len(files)
       THEN fpos' = fpos + 1 /\ pc' = "load"
       ELSE fpos' = fpos /\ pc' = "done"

\* the end of one pass of the loop over the posts
NextPost ==
    /\ idx' = idx + 1
    /\ pc' = IF idx < Len(posts) THEN "post" ELSE "save"
    /\ cur' = NoCur
    /\ result_data' = None
    /\ nav' = NoCall

\* an except branch that records the post without counting it
CountFailedUncounted ==
    /\ failed_posts' = Append(failed_posts, idx)
    /\ UNCHANGED <<posts, repaired_posts, stats, counted>>

\* failed_posts.append(post); self.stats["failed"] += 1
CountFailed ==
    /\ failed_posts' = Append(failed_posts, idx)
    /\ stats' = [stats EXCEPT !.failed = @ + 1]
    /\ UNCHANGED <<posts, repaired_posts, counted>>

\* process_files up to its loop: the failed_ files first, then the fresh ones
ProcessFiles ==
    /\ pc = "start"
    /\ \E a \in Orders(FailedBatches(input_dir)), b \in Orders(FreshBatches(input_dir)) :
          files' = a \o b
    /\ IF files' = <<>> THEN pc' = "done" /\ fpos' = 0 ELSE pc' = "load" /\ fpos' = 1
    /\ UNCHANGED <<fn_call, returned, stage_vars>>
    /\ UNCHANGED <<input_dir, limit, posts, idx, repaired_posts, failed_posts, stats, pages,
                   cur, result_data, nav, out_dir, started, finished, invoked, counted,
                   loaded>>

\* process_single_file up to its loop: json.load and the limit
LoadFile ==
    /\ pc = "load"
    /\ started' = Append(started, files[fpos])
    /\ counted' = Append(counted, 0)
    /\ repaired_posts' = <<>>
    /\ failed_posts' = <<>>
    /\ invoked' = {}
    /\ \E content \in FileContents :
          /\ Len(content.posts) <= MaxPosts - loaded
          /\ loaded' = loaded + Len(content.posts)
          /\ IF ~content.ok
             THEN posts' = <<>> /\ idx' = 0 /\ NextFile
             ELSE /\ posts' = IF limit /= None /\ limit[1] /= 0
                              THEN Prefix(content.posts, limit[1]) ELSE content.posts
                  /\ idx' = 1
                  /\ pc' = IF posts' = <<>> THEN "save" ELSE "post"
                  /\ UNCHANGED <<fpos, finished>>
    /\ UNCHANGED <<fn_call, returned, stage_vars>>
    /\ UNCHANGED <<input_dir, limit, files, stats, pages, cur, result_data, nav, out_dir>>

\* a resolution that consults the address first and the diocese field only when the
\* address gives nothing
ResolveAddressFirst(post) ==
    LET diocese == IF infer_diocese(post.address.s) /= <<>>
                   THEN infer_diocese(post.address.s) ELSE post.diocese.s
    IN  [church_name |-> Strip(Replace(post.church_name.s, k_seongdang, <<>>)),
         diocese |-> diocese,
         handler |-> get_handler(diocese)]

\* church_name, diocese and handler of a post whose church_name is a string
Resolve(post) ==
    LET diocese == IF post.diocese.s /= <<>> THEN post.diocese.s
                   ELSE infer_diocese(post.address.s)
    IN  [church_name |-> Strip(Replace(post.church_name.s, k_seongdang, <<>>)),
         diocese |-> diocese,
         handler |-> get_handler(diocese)]

\* a skip that records the post as failed, the way the branch without handler does
SkipRecorded ==
    /\ failed_posts' = Append(failed_posts, idx)
    /\ NextPost
    /\ UNCHANGED <<stats, counted>>

\* if not church_name or not diocese: continue
SkipPost == NextPost /\ UNCHANGED <<failed_posts, stats, counted>>

\* one pass of the loop, up to the try: name and diocese, the skip, the dispatch.
\* A church_name that is null makes .replace raise outside any try: the exception
\* leaves process_single_file and process_files
ResolvePost ==
    /\ pc = "post"
    /\ IF posts[idx].church_name.t = "null"
       THEN /\ pc' = "raised"
            /\ UNCHANGED <<idx, cur, result_data, nav, failed_posts, stats, counted>>
       ELSE IF Resolve(posts[idx]).church_name = <<>> \/ Resolve(posts[idx]).diocese = <<>>
       THEN SkipPost
       ELSE IF Resolve(posts[idx]).handler = NoHandler
       THEN /\ failed_posts' = Append(failed_posts, idx)
            /\ NextPost
            /\ UNCHANGED <<stats, counted>>
       ELSE /\ stats' = [stats EXCEPT !.total = @ + 1]
            /\ cur' = [church_name |-> Resolve(posts[idx]).church_name,
                       handler |-> Resolve(posts[idx]).handler]
            /\ pc' = "page"
            /\ UNCHANGED <<idx, result_data, nav, failed_posts, counted>>
    /\ UNCHANGED <<fn_call, returned, stage_vars>>
    /\ UNCHANGED <<input_dir, limit, files, fpos, posts, repaired_posts, pages, out_dir,
                   started, finished, invoked, loaded>>

\* page = await self.context.new_page(): a page more, or an exception the except
\* branch counts
NewPage ==
    /\ pc = "page"
    /\ \E opened \in BOOLEAN :
          IF opened
          THEN /\ pages' = pages + 1
               /\ pc' = "nav"
               /\ UNCHANGED <<posts, idx, repaired_posts, failed_posts, stats, cur,
                              result_data, nav, counted>>
          ELSE CountFailed /\ NextPost /\ UNCHANGED pages
    /\ UNCHANGED <<fn_call, returned, stage_vars>>
    /\ UNCHANGED <<input_dir, limit, files, fpos, out_dir, started, finished, invoked,
                   loaded>>

\* result_data = await handler(page, church_name, post), the site being one of
\* sites: every handler catches what its browser calls raise, so the call returns
NavigateOn(sites) ==
    /\ pc = "nav"
    /\ \E site \in sites :
          nav' = [handler |-> cur.handler, church_name |-> cur.church_name,
                  site |-> site, ret |-> Handle(cur.handler, site, cur.church_name)]
    /\ result_data' = nav'.ret.result
    /\ invoked' = invoked \cup {idx}
    /\ pc' = "close"
    /\ UNCHANGED <<fn_call, returned, stage_vars>>
    /\ UNCHANGED <<input_dir, limit, files, fpos, posts, idx, repaired_posts, failed_posts,
                   stats, pages, cur, out_dir, started, finished, counted, loaded>>

Navigate == NavigateOn(RunSites(cur.handler, cur.church_name))

\* the dict of a post with the three repair fields set
Repaired(post, data) ==
    [repaired_mass_times |-> data, repair_source |-> "holy_repair_crawler",
     repair_timestamp |-> "now"] @@ post

\* if result_data and len(result_data) > 1
IsValidData(data) == Truthy(data) /\ Cardinality(DOMAIN data[1]) > 1

\* a classification whose failure branch is no else: it runs after the success
\* branch too
ClassifyFallthrough(closed) ==
    /\ IF closed = "ok" /\ IsValidData(result_data)
       THEN /\ posts' = [posts EXCEPT ![idx] = Repaired(@, result_data[1])]
            /\ repaired_posts' = Append(repaired_posts, idx)
            /\ stats' = [stats EXCEPT !.success = @ + 1, !.failed = @ + 1]
            /\ counted' = [counted EXCEPT ![Len(counted)] = @ + 1]
       ELSE /\ stats' = [stats EXCEPT !.failed = @ + 1]
            /\ UNCHANGED <<posts, repaired_posts, counted>>
    /\ failed_posts' = Append(failed_posts, idx)

\* the classification of the outcome: the if / else after page.close(), and the
\* except branch when close() raised
Classify(closed) ==
    IF closed = "ok" /\ IsValidData(result_data)
    THEN /\ posts' = [posts EXCEPT ![idx] = Repaired(@, result_data[1])]
         /\ repaired_posts' = Append(repaired_posts, idx)
         /\ stats' = [stats EXCEPT !.success = @ + 1]
         /\ counted' = [counted EXCEPT ![Len(counted)] = @ + 1]
         /\ UNCHANGED failed_posts
    ELSE CountFailed

\* await page.close() and the classification of the outcome.  A close() that raises
\* may or may not have closed the page; the except branch counts a failure
ClosePage ==
    /\ pc = "close"
    /\ \E closed \in {"ok", "raised_closed", "raised_open"} :
          /\ pages' = IF closed = "raised_open" THEN pages ELSE pages - 1
          /\ Classify(closed)
    /\ NextPost
    /\ UNCHANGED <<fn_call, returned, stage_vars>>
    /\ UNCHANGED <<input_dir, limit, files, fpos, out_dir, started, finished, invoked,
                   loaded>>

\* json.dump(repaired_posts, f): the dicts of the list, in order
Dump(list, heap) == [n \in 1..Len(list) |-> heap[list[n]]]

\* the end of process_single_file: the repaired posts are written when there are any
SaveResults ==
    /\ pc = "save"
    /\ out_dir' = IF repaired_posts /= <<>>
                  THEN {o \in out_dir : o.name /= <<"repaired_">> \o files[fpos]}
                       \cup {[name |-> <<"repaired_">> \o files[fpos],
                              content |-> Dump(repaired_posts, posts)]}
                  ELSE out_dir
    /\ NextFile
    /\ UNCHANGED <<fn_call, returned, stage_vars>>
    /\ UNCHANGED <<input_dir, limit, files, posts, idx, repaired_posts, failed_posts, stats,
                   pages, cur, result_data, nav, started, invoked, counted, loaded>>

\* main's finally: crawler.stop() closes the context and with it every page, after
\* process_files returned or raised
Stop ==
    /\ pc \in {"done", "raised"}
    /\ pc' = IF pc = "done" THEN "stopped" ELSE "aborted"
    /\ pages' = 0
    /\ UNCHANGED <<fn_call, returned, stage_vars>>
    /\ UNCHANGED <<input_dir, limit, files, fpos, posts, idx, repaired_posts, failed_posts,
                   stats, cur, result_data, nav, out_dir, started, finished, invoked,
                   counted, loaded>>

Next ==
    \/ ProcessFiles
    \/ LoadFile
    \/ ResolvePost
    \/ NewPage
    \/ Navigate
    \/ ClosePage
    \/ SaveResults
    \/ Stop

Spec == Init /\ [][Next]_vars

(***************************************************************************)
(* One handler call on any site: the run on a batch that holds one post of *)
(* a diocese with a handler, from the point where its page was opened      *)
(***************************************************************************)

\* the dioceses get_handler has a handler for
HandledDioceses ==
    { k_seoul \o k_daegyogu, k_daegu \o k_daegyogu, k_suwon \o k_gyogu,
      k_incheon \o k_gyogu, k_busan \o k_gyogu }

NavPosts ==
    {[church_name |-> JStr(n \o k_seongdang), diocese |-> JStr(d), address |-> JStr(<<>>)] :
        n \in ChurchNames, d \in HandledDioceses}

\* the term a handler looks for in the rows / links of its list
SearchTerm(handler, church_name) ==
    IF handler = "handle_daegu" THEN Strip(Replace(church_name, k_jugyojwa, <<>>))
    ELSE Strip(Replace(church_name, k_seongdang, <<>>))

\* the state after page = await self.context.new_page() for the post of the batch
NavInit ==
    /\ StagesIdle
    /\ input_dir = {f_fresh1, f_other}
    /\ limit = None
    /\ files = <<f_fresh1>>
    /\ fpos = 1
    /\ pc = "nav"
    /\ \E post \in NavPosts :
          /\ posts = <<post>>
          /\ cur = [church_name |-> Resolve(post).church_name,
                    handler |-> Resolve(post).handler]
    /\ idx = 1
    /\ repaired_posts = <<>>
    /\ failed_posts = <<>>
    /\ stats = [total |-> 1, success |-> 0, failed |-> 0]
    /\ pages = 1
    /\ result_data = None
    /\ nav = NoCall
    /\ out_dir = {}
    /\ started = <<f_fresh1>>
    /\ finished = {}
    /\ invoked = {}
    /\ counted = <<0>>
    /\ loaded = 1
    /\ fn_call = NoFn
    /\ returned = None

\* the handler call, answered by any site with lists of at most MaxCands entries
Survey == NavigateOn(SitesOf(cur.handler, SearchTerm(cur.handler, cur.church_name), MaxCands))

NavNext ==
    \/ Survey
    \/ ClosePage
    \/ SaveResults
    \/ Stop

NavSpec == NavInit /\ [][NavNext]_vars

(***************************************************************************)
(* The functions of the module called on their own: the resolution of a    *)
(* post (name, diocese, handler), expand_days, normalize_time and          *)
(* parse_mass_times_from_text, each applied to one input                   *)
(***************************************************************************)

\* the words of an address: every keyword infer_diocese looks for, and two it does
\* not (경북, 포항)
AddressWords ==
    { k_seoul, k_daegu, k_gwangju, k_jeju, k_daejeon, k_sejong, k_chungnam, k_chungnamdo,
      k_busan, k_incheon, k_jeonbuk, k_jeonbukdo, k_chungbuk, k_chungbukdo, k_gangwon,
      k_gangwondo, k_wonju, k_gyeonggi, <<44221, 48513>>, <<54252, 54637>> }
    \cup SuwonCities \cup UijeongbuCities \cup IncheonCities

\* the addresses of the posts: at most two words, in either order
Addresses == {<<>>} \cup AddressWords \cup {a \o <<32>> \o b : a, b \in AddressWords}

\* the diocese fields of the posts: missing or empty, null, and three names
DioceseFields ==
    { JStr(<<>>), JNull, JStr(k_cheonjugyo \o <<32>> \o k_seoul \o k_daegyogu),
      JStr(k_busan \o k_gyogu), JStr(<<50504, 46041>> \o k_gyogu) }      \* "안동교구"

\* the posts whose resolution is looked at
ResolvePosts ==
    {[church_name |-> JStr(n_myeongdong \o k_seongdang), diocese |-> d, address |-> a] :
        d \in DioceseFields, a \in {JNull} \cup {JStr(x) : x \in Addresses}}

\* the day symbols of the sources' lists and a character that is none (가)
DaySymbols == {d_wol, d_hwa, d_su, d_mok, d_geum, d_to, d_il, d_juil}
NoDay == <<44032>>

\* the expressions expand_days is applied to: every range of two symbols, ranges
\* with an endpoint that is no day, a range of three, single symbols, and 매일
DayExpressions ==
    {a \o <<45>> \o b : a, b \in DaySymbols \cup {NoDay}}
    \cup {d_wol \o <<45>> \o d_su \o <<45>> \o d_geum, <<45>>, <<>>}
    \cup DaySymbols
    \cup {k_maeil, k_maeil \o k_misa, d_wol \o <<45>> \o k_maeil}

\* the hours and minutes of the times normalize_time is applied to
ClockHours == {<<48>>, <<49>>, <<55>>, <<48, 55>>, <<49, 49>>, <<49, 50>>, <<49, 51>>,
               <<50, 51>>}
ClockMinutes == {<<48, 48>>, <<48, 53>>, <<51, 48>>}

\* the time strings: every H:MM, and strings int() rejects or that have no two parts
TimeStrings ==
    {h \o <<58>> \o m : h \in ClockHours, m \in ClockMinutes}
    \cup {<<55>>, <<55, 58>>, <<55, 58, 48, 48, 58, 48, 48>>, <<97, 58, 48, 48>>,
          <<55, 58, 120, 120>>, <<>>}

\* the ampm arguments: None, the empty string, the two markers
Meridiems == {None, Some(<<>>), Some(k_ojeon), Some(k_ohu)}

\* the parts the texts handed to the parser are made of: the two section markers,
\* the two meridiem markers, two times, a description, a day and a line break
tm_7 == <<55, 58, 48, 48>>                      \* "7:00"
tm_10 == <<49, 48, 58, 48, 48>>                 \* "10:00"
tm_1230 == <<49, 50, 58, 51, 48>>               \* "12:30"
ds_gyojung == <<40, 44368, 51473, 41>>          \* "(교중)"
TextParts == {m_sunday, m_weekday, k_ojeon, k_ohu, tm_7, tm_1230, ds_gyojung, d_wol, <<10>>}

\* the largest number of parts of a text
MaxParts == 3

\* a Sunday section with 오전 10:00 and a weekday section with 오후 7:00, on one line
\* and on lines of their own
SectionParts == <<m_sunday, k_ojeon, tm_10, m_weekday, k_ohu, tm_7>>
SectionLines == <<m_sunday, <<10>>, k_ojeon, tm_10, <<10>>, m_weekday, <<10>>, k_ohu, tm_7>>

\* a flat text that names the same time and description twice
TwiceParts == <<tm_7, ds_gyojung, tm_7, ds_gyojung>>

\* a text longer than the raw_text kept of it, with its only section marker behind
\* RawTextLimit spaces
Padding == [i \in 1..RawTextLimit |-> 32]
LateMarkerParts == <<d_wol, tm_10, ds_gyojung, Padding, m_sunday>>

\* the day names a line of the flat format can begin with: each day, alone and
\* followed by 요일
DayNames ==
    {d_wol, d_hwa, d_su, d_mok, d_geum, d_to, d_il, d_juil}
    \cup {d \o k_yoil : d \in {d_wol, d_hwa, d_su, d_mok, d_geum, d_to, d_il}}

\* a line that begins with a day name and holds two times without description
DayLineParts == {<<d, tm_10, tm_7>> : d \in DayNames}

\* the texts handed to the parser, as lists of parts
PartLists ==
    SeqsUpTo(TextParts, MaxParts)
    \cup {SectionParts, SectionLines, TwiceParts, LateMarkerParts}
    \cup DayLineParts

\* the text of a list of parts: the parts with a space between them
RECURSIVE Join(_)
Join(parts) ==
    IF parts = <<>> THEN <<>>
    ELSE IF Len(parts) = 1 THEN parts[1]
    ELSE parts[1] \o <<32>> \o Join(Tail(parts))

\* the start of a call of one of the functions on its own: nothing else runs
FnInit ==
    /\ StagesIdle
    /\ input_dir = {f_other}
    /\ limit = None
    /\ files = <<>>
    /\ fpos = 0
    /\ pc = "call"
    /\ posts = <<>>
    /\ idx = 0
    /\ repaired_posts = <<>>
    /\ failed_posts = <<>>
    /\ stats = [total |-> 0, success |-> 0, failed |-> 0]
    /\ pages = 0
    /\ cur = NoCur
    /\ result_data = None
    /\ nav = NoCall
    /\ out_dir = {}
    /\ started = <<>>
    /\ finished = {}
    /\ invoked = {}
    /\ counted = <<>>
    /\ loaded = 0
    /\ returned = None
    /\ \/ \E post \in ResolvePosts : fn_call = [fn |-> "resolve", post |-> post]
       \/ \E e \in DayExpressions : fn_call = [fn |-> "expand_days", day_expression |-> e]
       \/ \E t \in TimeStrings, m \in Meridiems :
             fn_call = [fn |-> "normalize_time", time_str |-> t, ampm |-> m]
       \/ \E parts \in PartLists :
             fn_call = [fn |-> "parse_mass_times_from_text", text |-> Join(parts),
                        parts |-> parts]

\* what the rest of the program does during such a call: nothing
Idle ==
    /\ UNCHANGED <<input_dir, limit, files, fpos, pc, posts, idx, repaired_posts,
                   failed_posts, stats, pages, cur, result_data, nav, out_dir, started,
                   finished, invoked, counted, loaded>>
    /\ UNCHANGED stage_vars

\* the name, diocese and handler process_single_file resolves for a post
ResolveCall ==
    /\ fn_call.fn = "resolve" /\ returned = None
    /\ returned' = Some(Resolve(fn_call.post))
    /\ UNCHANGED fn_call
    /\ Idle

\* expand_days(day_expression)
ExpandDays ==
    /\ fn_call.fn = "expand_days" /\ returned = None
    /\ returned' = Some(expand_days(fn_call.day_expression))
    /\ UNCHANGED fn_call
    /\ Idle

\* normalize_time(time_str, ampm)
NormalizeTime ==
    /\ fn_call.fn = "normalize_time" /\ returned = None
    /\ returned' = Some(normalize_time(fn_call.time_str, fn_call.ampm))
    /\ UNCHANGED fn_call
    /\ Idle

\* parse_mass_times_from_text(text)
ParseText ==
    /\ fn_call.fn = "parse_mass_times_from_text" /\ returned = None
    /\ returned' = Some(parse_mass_times_from_text(fn_call.text))
    /\ UNCHANGED fn_call
    /\ Idle

\* parse_mass_times_from_text(result["raw_text"]) for the result of the call before
Reparse ==
    /\ fn_call.fn = "parse_mass_times_from_text" /\ returned /= None
    /\ returned[1] /= None
    /\ fn_call' = [fn |-> "reparse", text |-> returned[1][1].raw_text, first |-> returned[1]]
    /\ returned' = Some(parse_mass_times_from_text(returned[1][1].raw_text))
    /\ Idle

FnNext ==
    \/ ResolveCall
    \/ ExpandDays
    \/ NormalizeTime
    \/ ParseText
    \/ Reparse

FnSpec == FnInit /\ [][FnNext]_vars

(***************************************************************************)
(* Properties of the repair run (Spec)                                     *)
(***************************************************************************)

\* whether a handler result holds a categorized schedule list
HasSchedule(result) == result /= None /\ DOMAIN result[1] \cap CategorySet /= {}

\* how often position i occurs in a list of positions
Occurs(i, list) == Cardinality({n \in DOMAIN list : list[n] = i})

\* the name of the output file of a batch file
OutputName(file) == <<"repaired_">> \o file

\* C1: a record is counted as a success only when the handler's result holds at
\* least one categorized schedule list -- every post of the repaired subset carries
\* a result with one of the four categories
C1_SuccessOnlyStructured ==
    \A n \in DOMAIN repaired_posts :
        DOMAIN posts[repaired_posts[n]].repaired_mass_times \cap CategorySet /= {}

\* C2: an exception raised while one record is processed is confined to that
\* record -- when the run has ended, every batch file of the run was processed
C2_ExceptionConfined ==
    pc \in {"stopped", "aborted"} => \A n \in DOMAIN files : files[n] \in finished

\* C3: at most one page is open at any time, and none is open when the next record
\* is taken up
C3_OnePageAtMost == pages <= 1 /\ (pc \in {"post", "page"} => pages = 0)

\* C7: no file is processed twice, and once a fresh batch file (posts_batch_*) was
\* started every failed_posts_batch_* file of the directory has been processed
C7_FailedBeforeFresh ==
    /\ \A i, j \in DOMAIN started : i /= j => started[i] /= started[j]
    /\ (\E n \in DOMAIN started : started[n][1] = "posts_batch_")
          => \A f \in input_dir : f[1] = "failed_" => f \in finished

\* C7, reached: the fresh batch file is being processed after both failed_ files
C7_FreshAfterBothFailed ==
    /\ Len(started) = 3
    /\ started[3] = f_fresh1
    /\ {f_failed1, f_failed2} \subseteq finished
    /\ pc = "post"

\* C8: no record is in both the repaired and the failed subset of its batch, and a
\* record a handler was invoked for is in exactly one of them once its outcome is
\* classified
C8_ExactlyOneSubset ==
    /\ \A i \in DOMAIN posts :
          ~(Occurs(i, repaired_posts) > 0 /\ Occurs(i, failed_posts) > 0)
    /\ \A i \in invoked :
          \/ pc = "close" /\ i = idx
          \/ Occurs(i, repaired_posts) + Occurs(i, failed_posts) = 1

\* C8, reached: a batch ends with one invoked record in each subset
C8_OneRepairedOneFailed ==
    /\ pc = "save"
    /\ Cardinality(invoked) = 2
    /\ Len(repaired_posts) = 1
    /\ Len(failed_posts) = 1

\* C9: repaired_<name> is written if and only if a record of the batch was counted
\* as success, and it holds exactly the repaired subset -- at the end of the run
\* every started batch has its output file iff it counted a success, and a batch
\* that has just been finished with repaired records left them in its file
C9_OutputIffSuccess ==
    /\ pc \in {"stopped", "aborted"} =>
          \A n \in DOMAIN started :
              counted[n] > 0 <=> \E o \in out_dir : o.name = OutputName(started[n])
    /\ (started /= <<>> /\ started[Len(started)] \in finished /\ repaired_posts /= <<>>) =>
          \E o \in out_dir :
              /\ o.name = OutputName(started[Len(started)])
              /\ o.content = Dump(repaired_posts, posts)

\* C10: a record whose diocese has no handler opens no page, joins the failed subset
\* and adds one to stats.failed and to stats.total
C10_NoHandlerCounted ==
    [][(/\ pc = "post"
        /\ posts[idx].church_name.t /= "null"
        /\ Resolve(posts[idx]).church_name /= <<>>
        /\ Resolve(posts[idx]).diocese /= <<>>
        /\ Resolve(posts[idx]).handler = NoHandler)
       => /\ pages' = pages
          /\ failed_posts' = Append(failed_posts, idx)
          /\ stats'.failed = stats.failed + 1
          /\ stats'.total = stats.total + 1]_vars

(***************************************************************************)
(* Properties of the handler calls (NavSpec)                               *)
(***************************************************************************)

\* the navigation failures of the claim: page load, search input, result table or
\* link, selector wait
ListedFailures == {"goto", "input", "table", "link", "wait"}

EndsCall(call) ==
    \/ call.ret.failures \cap {"goto", "input", "table", "link"} /= {}
    \/ call.handler = "handle_busan" /\ "wait" \in call.ret.failures

C5_ParseFailureFlagged ==
    pc = "close" /\ nav.ret.failures = {} /\ ~HasSchedule(nav.ret.result)
        => /\ nav.ret.result /= None
           /\ {"raw_text", "parsing_failed"} \subseteq DOMAIN nav.ret.result[1]

ListHandlers == {"handle_suwon", "handle_daegu", "handle_incheon"}

\* the positions of the candidates of a call's list that match its search term: a
\* row that names the church and holds a link (handle_suwon), a link of less than 20
\* characters that holds the term (handle_daegu), a link whose text is the term or
\* holds it and is less than 5 characters longer (handle_incheon)
Matching(call) ==
    CASE call.handler = "handle_suwon" ->
            {n \in DOMAIN call.site.cands :
                IsIn(call.church_name, call.site.cands[n].text) /\ call.site.cands[n].link}
      [] call.handler = "handle_daegu" ->
            {n \in DOMAIN call.site.cands :
                /\ IsIn(SearchTerm(call.handler, call.church_name), call.site.cands[n].text)
                /\ Len(call.site.cands[n].text) < 20}
      [] call.handler = "handle_incheon" ->
            {n \in DOMAIN IncheonLinks(call.site) :
                LET txt == Strip(IncheonLinks(call.site)[n].text)
                    term == SearchTerm(call.handler, call.church_name)
                IN  txt = term \/ (IsIn(term, txt) /\ Len(txt) < Len(term) + 5)}
      [] OTHER -> {}

\* the match a handler clicks first: the first one of the list, in handle_incheon the
\* first one whose text is the term when there is one
Preferred(call) ==
    LET exact == {n \in Matching(call) :
                    /\ call.handler = "handle_incheon"
                    /\ Strip(IncheonLinks(call.site)[n].text)
                          = SearchTerm(call.handler, call.church_name)}
        from == IF exact /= {} THEN exact ELSE Matching(call)
    IN  CHOOSE n \in from : \A m \in from : n <= m

InferRules ==
    << [one |-> {k_seoul}, also |-> {}, gives |-> k_seoul \o k_daegyogu],
       [one |-> {k_daegu}, also |-> {}, gives |-> k_daegu \o k_daegyogu],
       [one |-> {k_gwangju}, also |-> {}, gives |-> k_gwangju \o k_daegyogu],
       [one |-> {k_jeju}, also |-> {}, gives |-> k_jeju \o k_gyogu],
       [one |-> {k_daejeon, k_sejong, k_chungnam, k_chungnamdo}, also |-> {},
        gives |-> k_daejeon \o k_gyogu],
       [one |-> {k_busan}, also |-> {}, gives |-> k_busan \o k_gyogu],
       [one |-> {k_incheon}, also |-> {}, gives |-> k_incheon \o k_gyogu],
       [one |-> {k_jeonbuk, k_jeonbukdo}, also |-> {}, gives |-> <<51204, 51452>> \o k_gyogu],
       [one |-> {k_chungbuk, k_chungbukdo}, also |-> {}, gives |-> <<52397, 51452>> \o k_gyogu],
       [one |-> {k_gangwon}, also |-> {k_wonju}, gives |-> k_wonju \o k_gyogu],
       [one |-> {k_gangwon}, also |-> {}, gives |-> <<52632, 52380>> \o k_gyogu],
       [one |-> {k_gyeonggi}, also |-> SuwonCities, gives |-> k_suwon \o k_gyogu],
       [one |-> {k_gyeonggi}, also |-> UijeongbuCities,
        gives |-> <<51032, 51221, 48512>> \o k_gyogu],
       [one |-> {k_gyeonggi}, also |-> IncheonCities, gives |-> k_incheon \o k_gyogu],
       [one |-> {k_gyeonggi}, also |-> {}, gives |-> k_suwon \o k_gyogu] >>

\* whether rule n applies to an address
RuleApplies(n, address) ==
    /\ \E k \in InferRules[n].one : IsIn(k, address)
    /\ InferRules[n].also = {} \/ \E k \in InferRules[n].also : IsIn(k, address)

\* the diocese of the first rule that applies, empty when none does
FirstRule(address) ==
    IF \E n \in DOMAIN InferRules : RuleApplies(n, address)
    THEN InferRules[CHOOSE n \in DOMAIN InferRules :
                        /\ RuleApplies(n, address)
                        /\ \A m \in 1..(n - 1) : ~RuleApplies(m, address)].gives
    ELSE <<>>

\* C11: a post with an empty diocese field is resolved to the diocese of the first
\* keyword rule its address matches (empty when none matches) and dispatched to
\* that diocese's handler; a post with a non-empty diocese field is resolved to
\* that field and its handler, whatever the address holds
C11_InferredDispatch ==
    (fn_call.fn = "resolve" /\ returned /= None) =>
        LET post == fn_call.post
            diocese == IF post.diocese.s = <<>> THEN FirstRule(post.address.s)
                       ELSE post.diocese.s
        IN  /\ returned[1].diocese = diocese
            /\ returned[1].handler = get_handler(diocese)

\* a post without diocese whose address 경기 부천 was resolved to 인천교구 and its
\* handler
C11_BucheonToIncheon ==
    /\ fn_call.fn = "resolve" /\ returned /= None
    /\ fn_call.post.diocese.s = <<>>
    /\ fn_call.post.address.s = k_gyeonggi \o <<32, 48512, 52380>>
    /\ returned[1].diocese = k_incheon \o k_gyogu
    /\ returned[1].handler = "handle_incheon"

\* a call of the parser that returned
Parsed == fn_call.fn = "parse_mass_times_from_text" /\ returned /= None

\* whether a text holds a section marker
Sectioned(text) == IsIn(m_sunday, text) \/ IsIn(m_weekday, text)

\* the categories of a parser return value (none for None)
CategoriesOf(value) == IF value = None THEN {} ELSE DOMAIN value[1] \cap CategorySet

\* C12: for a text without section marker the parser returns no result that holds
\* fewer than two of the four categories
C12_FlatNeedsTwoCategories ==
    (Parsed /\ ~Sectioned(fn_call.text) /\ returned[1] /= None) =>
        Cardinality(CategoriesOf(returned[1])) >= 2

\* the times of the entries of a category of a parser return value (none when the
\* category is absent)
TimesOf(value, cat) ==
    IF cat \in CategoriesOf(value)
    THEN [n \in 1..Len(value[1][cat]) |-> value[1][cat][n].time]
    ELSE <<>>

\* C13: for the text with 오전 10:00 in its [주일미사] section and 오후 7:00 in its
\* [평일미사] section, and no day, the result holds one Sunday entry at 10:00 and one
\* weekday entry at 19:00
C13_SectionsWithoutDays ==
    (Parsed /\ fn_call.parts \in {SectionParts, SectionLines}) =>
        /\ TimesOf(returned[1], c_sunday) = <<tm_10>>
        /\ TimesOf(returned[1], c_weekday) = << <<49, 57, 58, 48, 48>> >>

\* the week as a cycle of seven days, 일 being another symbol of its seventh
DayCycle == <<d_wol, d_hwa, d_su, d_mok, d_geum, d_to, d_juil>>
CyclePos(d) == IF d = d_il THEN 7 ELSE CHOOSE n \in 1..7 : DayCycle[n] = d

\* a list of days with each 일 written 주일
AsCycleDays(days) == [n \in 1..Len(days) |-> IF days[n] = d_il THEN d_juil ELSE days[n]]

\* a call of expand_days that returned
Expanded == fn_call.fn = "expand_days" /\ returned /= None

\* the range expression a-b
Range(a, b) == a \o <<45>> \o b

\* C14: for a range a-b of two day symbols, a not after b, expand_days returns the
\* days of the cycle from a to b, each once
C14_RangeIsCycleSlice ==
    Expanded =>
        \A a, b \in DaySymbols :
            (fn_call.day_expression = Range(a, b) /\ CyclePos(a) <= CyclePos(b)) =>
                AsCycleDays(returned[1]) = SubSeq(DayCycle, CyclePos(a), CyclePos(b))

\* C15: for a range a-b with a after b, and for a range with an endpoint that is no
\* day symbol, expand_days returns the list that holds the expression alone
C15_BadRangePassesThrough ==
    Expanded =>
        \A a, b \in DaySymbols \cup {NoDay} :
            (/\ fn_call.day_expression = Range(a, b)
             /\ \/ a = NoDay
                \/ b = NoDay
                \/ CyclePos(a) > CyclePos(b)) =>
                returned[1] = <<fn_call.day_expression>>

\* C16: for an expression that holds 매일, expand_days returns Monday to Saturday,
\* without Sunday
C16_DailyExcludesSunday ==
    (Expanded /\ IsIn(k_maeil, fn_call.day_expression)) =>
        returned[1] = <<d_wol, d_hwa, d_su, d_mok, d_geum, d_to>>

\* the number a string of one or two digits writes, and the two digits of a number
\* below 100
TwoDigitValue(digits) ==
    IF Len(digits) = 1 THEN digits[1] - 48 ELSE 10 * (digits[1] - 48) + (digits[2] - 48)
TwoDigits(n) == <<48 + (n \div 10), 48 + (n % 10)>>

\* a call of normalize_time that returned
Normalised == fn_call.fn = "normalize_time" /\ returned /= None

\* C17: without meridiem normalize_time returns its input; for a time that is not
\* two numbers it returns its input; for H:MM with 오후 the hours 1 to 11 get 12 added
\* and 12 stays, with 오전 the hour 12 becomes 0 and every other hour is kept, and the
\* result is written with two digits for the hour and two for the minute
C17_NormalizeTimeReference ==
    Normalised =>
        /\ fn_call.ampm \in {None, Some(<<>>)} => returned[1] = fn_call.time_str
        /\ (\A h \in ClockHours, m \in ClockMinutes : fn_call.time_str /= h \o <<58>> \o m)
              => returned[1] = fn_call.time_str
        /\ \A h \in ClockHours, m \in ClockMinutes :
              LET hour == TwoDigitValue(h)
                  minute == TwoDigits(TwoDigitValue(m))
              IN  fn_call.time_str = h \o <<58>> \o m =>
                    /\ (fn_call.ampm = Some(k_ohu) /\ hour \in 1..11)
                          => returned[1] = TwoDigits(hour + 12) \o <<58>> \o minute
                    /\ (fn_call.ampm = Some(k_ohu) /\ hour = 12)
                          => returned[1] = TwoDigits(12) \o <<58>> \o minute
                    /\ (fn_call.ampm = Some(k_ojeon) /\ hour = 12)
                          => returned[1] = TwoDigits(0) \o <<58>> \o minute
                    /\ (fn_call.ampm = Some(k_ojeon) /\ hour /= 12)
                          => returned[1] = TwoDigits(hour) \o <<58>> \o minute

\* the call normalize_time("12:30", "오후") returned "12:30"
C17_HalfPastNoonStays ==
    /\ Normalised
    /\ fn_call.time_str = tm_1230 /\ fn_call.ampm = Some(k_ohu)
    /\ returned[1] = tm_1230

\* the parts of a text that are times, and those that are meridiem markers
IsTimePart(part) == part \in {tm_7, tm_10, tm_1230}
IsMeridiemPart(part) == part \in {k_ojeon, k_ohu}

\* a text that holds times, each directly after a meridiem marker; a text that
\* holds no meridiem marker
AllQualified(parts) ==
    /\ \E n \in DOMAIN parts : IsTimePart(parts[n])
    /\ \A n \in DOMAIN parts : IsTimePart(parts[n]) => (n > 1 /\ IsMeridiemPart(parts[n - 1]))
NoneQualified(parts) == \A n \in DOMAIN parts : ~IsMeridiemPart(parts[n])

\* the 24-hour writing HH:MM of a time H:MM (H from 1 to 12) after a meridiem marker
Clock24(time, meridiem) ==
    LET hour == TwoDigitValue(Before(time, <<58>>))
    IN  TwoDigits(IF meridiem = k_ohu /\ hour < 12 THEN hour + 12
                  ELSE IF meridiem = k_ojeon /\ hour = 12 THEN 0
                  ELSE hour)
        \o <<58>> \o After(time, <<58>>)

\* the times of all entries of a parser return value
AllTimes(value) ==
    UNION {{TimesOf(value, cat)[n] : n \in DOMAIN TimesOf(value, cat)} : cat \in CategorySet}

\* C18: in a result of the parser, sectioned or flat, the time of every entry of a
\* text whose times all follow a meridiem marker is the 24-hour HH:MM of one of
\* them, and the time of every entry of a text without meridiem marker is one of
\* the text's times as written
C18_TimesNormalizedOrVerbatim ==
    Parsed =>
        /\ AllQualified(fn_call.parts) =>
              \A t \in AllTimes(returned[1]) :
                  \E n \in DOMAIN fn_call.parts :
                      /\ IsTimePart(fn_call.parts[n])
                      /\ t = Clock24(fn_call.parts[n], fn_call.parts[n - 1])
        /\ NoneQualified(fn_call.parts) =>
              \A t \in AllTimes(returned[1]) :
                  \E n \in DOMAIN fn_call.parts :
                      IsTimePart(fn_call.parts[n]) /\ t = fn_call.parts[n]

\* C19: in a result of the parser every category present holds at least one entry,
\* and no two entries of a category have the same time and description
C19_CategoriesDeduplicated ==
    (Parsed /\ returned[1] /= None) =>
        \A cat \in CategoriesOf(returned[1]) :
            LET entries == returned[1][1][cat]
            IN  /\ entries /= <<>>
                /\ \A i, j \in DOMAIN entries : i /= j => entries[i] /= entries[j]

\* the flat text that names 7:00 (교중) twice was parsed into one Sunday entry
C19_TwiceGivesOne ==
    /\ Parsed
    /\ fn_call.parts = TwiceParts
    /\ returned[1] /= None
    /\ returned[1][1][c_sunday] = <<[time |-> tm_7, desc |-> <<44368, 51473>>]>>

\* C20: parsing the raw_text of a result again yields no category that the result
\* does not hold
C20_ReparseAddsNoCategory ==
    (fn_call.fn = "reparse" /\ returned /= None) =>
        CategoriesOf(returned[1]) \subseteq CategoriesOf(fn_call.first)

\* the category of a day name: Sunday for 주일 and 일 / 일요일, Saturday for
\* 토 / 토요일, weekday for 월 to 금
DayCategory(day) ==
    IF day \in {d_juil, d_il, d_il \o k_yoil} THEN c_sunday
    ELSE IF day \in {d_to, d_to \o k_yoil} THEN c_saturday
    ELSE c_weekday

\* C26: for a flat text of one line that begins with a day name, the line scan
\* puts every HH:MM of the line into the category of that day name (주일, 일 and
\* 일요일 into 주일미사, 토 and 토요일 into 토요미사, 월 to 금 into 평일미사) and
\* into no other category
C26_LineScanByDay ==
    (Parsed /\ fn_call.parts \in DayLineParts) =>
        \A cat \in CategorySet :
            TimesOf(returned[1], cat) =
                IF cat = DayCategory(fn_call.parts[1]) THEN <<tm_10, tm_7>> ELSE <<>>

(***************************************************************************)
(* handle_busan: the order of its stages                                   *)
(***************************************************************************)

BusanStages == <<"mode", "bucket", "entity", "extract">>

\* the number of stages a handle_busan call on a site can pass: the stages before
\* the first one that fails
StagesPassable(site, church_name) ==
    LET target_name == Strip(Replace(church_name, k_seongdang, <<>>))
        chosung == get_chosung(target_name)
    IN  IF site.goto = "error" \/ "#ganadaTab" \notin site.selectors \/ site.stage = "mode"
        THEN 0
        ELSE IF \/ chosung = None
                \/ BusanMapping[chosung[1]] \notin site.buckets
                \/ site.stage = "bucket"
        THEN 1
        ELSE IF site.wait = "timeout" \/ site.stage = "entity" THEN 2
        ELSE IF "#misaContent" \notin site.selectors THEN 3
        ELSE 4

\* C25: handle_busan passes mode-select, bucket-select, entity-select and extract
\* in this order and never goes back; when a stage fails (element missing, no
\* consonant class for the name, wait timeout, a click that raises) it returns
\* None and has passed exactly the stages before the failing one
C25_BusanStagesInOrder ==
    (nav /= NoCall /\ nav.handler = "handle_busan") =>
        LET n == StagesPassable(nav.site, nav.church_name)
        IN  /\ nav.ret.clicks = SubSeq(BusanStages, 1, n)
            /\ n < 4 => nav.ret.result = None

\* C25, reached: a name without consonant class ended the call after mode-select,
\* on a site where every later stage would have succeeded
C25_NoClassStopsAfterMode ==
    /\ nav /= NoCall
    /\ nav.handler = "handle_busan"
    /\ get_chosung(Strip(Replace(nav.church_name, k_seongdang, <<>>))) = None
    /\ nav.site.stage = "none" /\ nav.site.wait = "ok" /\ nav.site.buckets = 0..13
    /\ "#misaContent" \in nav.site.selectors
    /\ nav.ret.clicks = <<"mode">>
    /\ nav.ret.result = None

(***************************************************************************)
(* Repair run: skipped records and the counters                            *)
(***************************************************************************)

\* a post whose church name is a string that is empty once 성당 is removed, or
\* whose diocese field is empty while no rule infers a diocese from its address
Skippable(post) ==
    \/ /\ post.church_name.t = "str"
       /\ Strip(Replace(post.church_name.s, k_seongdang, <<>>)) = <<>>
    \/ /\ post.diocese.s = <<>>
       /\ infer_diocese(post.address.s) = <<>>

\* C27: the pass of the loop over such a record opens no page, changes no
\* counter, leaves the record and every other record as they are, appends to
\* neither repaired_posts nor failed_posts, calls no handler, and goes on to the
\* next record
C27_SkipTouchesNothing ==
    [][(pc = "post" /\ Skippable(posts[idx])) =>
          /\ pages' = pages
          /\ stats' = stats
          /\ posts' = posts
          /\ repaired_posts' = repaired_posts
          /\ failed_posts' = failed_posts
          /\ invoked' = invoked
          /\ posts[idx].church_name.t = "str" =>
                (idx' = idx + 1 /\ pc' \in {"post", "save"})]_vars

\* C27, reached: the second record of a batch was skipped after the first one was
\* repaired: one record counted, one post in repaired_posts, none in failed_posts
C27_SkippedAfterRepaired ==
    /\ pc = "save"
    /\ Len(posts) = 2
    /\ Skippable(posts[2])
    /\ repaired_posts = <<1>>
    /\ failed_posts = <<>>
    /\ stats = [total |-> 1, success |-> 1, failed |-> 0]
    /\ pages = 0

\* the positions of the run inside the try of a record: total is raised, the
\* outcome is not counted yet
InRecord == {"page", "nav", "close"}

\* C30: whenever the run is not inside the try of a record, stats.total =
\* stats.success + stats.failed; total rises by exactly one when a record enters
\* the try in which its handler is called, and at no other step; no counter ever
\* decreases, within a batch or from one batch to the next
C30_CountersAddUp ==
    [][/\ stats'.total = stats'.success + stats'.failed
                          + (IF pc' \in InRecord THEN 1 ELSE 0)
       /\ stats'.total = stats.total + (IF pc = "post" /\ pc' = "page" THEN 1 ELSE 0)
       /\ stats'.success >= stats.success
       /\ stats'.failed >= stats.failed
       /\ pc = "nav" => stats' = stats]_vars

\* C30, reached: the second batch has handled its record, and the counters hold
\* the records of both batches
C30_SecondBatchAddsOn ==
    /\ Len(started) = 2
    /\ pc = "save"
    /\ invoked = {1}
    /\ stats = [total |-> 2, success |-> 1, failed |-> 1]

(***************************************************************************)
(* List crawler (src/crawler/crawler.py, GoodNewsCrawler)                  *)
(*                                                                         *)
(* JSON strings are code-point sequences; a missing value and an empty     *)
(* string are both <<>>, which the source treats alike (both are falsy).   *)
(* A record of collected_data or of a data file is a function from field   *)
(* names to values.  Of the fields run() copies from the API item, address *)
(* stands for all (phone, mass_times, priest, image_url are copied the     *)
(* same way).                                                              *)
(***************************************************************************)

ABSOLUTE_MAX_PAGES == 200
ABSOLUTE_MAX_ITEMS == 3000
MAX_RETRIES == 3
RETRY_DELAY == 5

\* min(a, b)
Min(a, b) == IF a <= b THEN a ELSE b

\* d.get(k, default)
Get(d, k, default) == IF k \in DOMAIN d THEN d[k] ELSE default

k_gongso == <<44277, 49548>>
k_seongji == <<49457, 51648>>

_detect_type(church) ==
    IF IsIn(k_gongso, church) THEN "gongso"
    ELSE IF IsIn(k_seongji, church) THEN "shrine"
    ELSE "church"

\* the orgnum field of item as run() and the loaders read it: <<>> if missing
OrgnumOf(item) == Get(item, "orgnum", <<>>)

\* _load_existing_orgnums: the orgnums of the records of the file that have mass times
ExistingOrgnums(file) ==
    {OrgnumOf(file[i]) : i \in {j \in DOMAIN file :
        Get(file[j], "has_mass_times", "None") = "True" /\ OrgnumOf(file[j]) /= <<>>}}

(***************************************************************************)
(* _make_request: the log holds what one call does, in order: the n-th     *)
(* requests.request(...) with the exception it raised ("none" for a        *)
(* response), and time.sleep(n)                                            *)
(***************************************************************************)

Requested(n, raised) == [ev |-> "request", n |-> n, raised |-> raised]

Slept(n) == [ev |-> "sleep", n |-> n, raised |-> "none"]

\* how one attempt ends: a response that took elapsed seconds, or an exception
Outcomes ==
    {[ok |-> TRUE, elapsed |-> e, raised |-> "none"] : e \in {0, 3, 5}}
    \cup {[ok |-> FALSE, elapsed |-> 0, raised |-> x] :
            x \in {"Timeout", "ConnectionError", "RequestException"}}

\* adaptive throttling after a response
Throttle(elapsed) ==
    IF elapsed >= 5 THEN <<Slept(30)>>
    ELSE IF elapsed >= 3 THEN <<Slept(10)>>
    ELSE <<>>

\* the wait of the except clause that caught the exception
Backoff(raised) == IF raised = "Timeout" THEN <<Slept(60)>> ELSE <<>>

\* the delay applied after every failed attempt
RetryDelayAlways(attempt) == <<Slept(RETRY_DELAY)>>

\* if attempt < MAX_RETRIES: the delay before the next attempt
RetryDelay(attempt) == IF attempt < MAX_RETRIES THEN <<Slept(RETRY_DELAY)>> ELSE <<>>

\* a new _make_request call for a list or a detail request
NewRequest(kind) == [kind |-> kind, attempt |-> 1, log |-> <<>>, response |-> "pending"]

\* the call is in its loop
Pending(req) == req.response = "pending"

\* one pass of the loop of _make_request
Attempt(req, outcome) ==
    LET tried == Append(req.log, Requested(req.attempt, outcome.raised))
    IN IF outcome.ok
       THEN [req EXCEPT !.log = tried \o Throttle(outcome.elapsed), !.response = "ok"]
       ELSE [req EXCEPT !.log = tried \o Backoff(outcome.raised) \o RetryDelay(req.attempt),
                        !.attempt = req.attempt + 1,
                        !.response = IF req.attempt + 1 > MAX_RETRIES THEN "None"
                                     ELSE "pending"]

(***************************************************************************)
(* What the API and the detail pages answer                                *)
(***************************************************************************)

o_1 == <<49>>
o_2 == <<50>>
o_3 == <<51>>
ch_myeongdong == <<47749, 46041>> \o k_seongdang
ch_sangok == <<32, 49328, 44257>> \o k_gongso \o <<32>>
addr_seoul == k_seoul

\* the items of BOARDLIST: a full one, one whose title is padded and that has no
\* addr, one with a blank title, and one whose addr is null
ApiItems ==
    { [orgnum |-> JStr(o_1), TITLE |-> JStr(ch_myeongdong), addr |-> JStr(addr_seoul)],
      [orgnum |-> JStr(o_2), TITLE |-> JStr(ch_sangok)],
      [orgnum |-> JStr(o_3), TITLE |-> JStr(<<32>>), addr |-> JStr(<<>>)],
      [orgnum |-> JStr(o_1), TITLE |-> JStr(ch_myeongdong), addr |-> JNull] }

\* the number of items the API has for the keyword, over all pages
ServerItems == 2

\* the bodies of a response to a list request when the API has left items not yet
\* listed: JSON with a BOARDLIST, or something that is not JSON
ListBodies(left) ==
    {[json |-> FALSE, BOARDLIST |-> <<>>]}
    \cup {[json |-> TRUE, BOARDLIST |-> l] : l \in SeqsUpTo(ApiItems, left)}

\* the rows of table.register05 of a detail page: its th text (<<>> without th)
\* and the texts of its td elements
row_sunday == [th |-> "sunday", tds |-> <<"sun", "10:00">>]
row_next == [th |-> "", tds |-> <<"sat", "18:00">>]
row_single == [th |-> "weekday", tds |-> <<"06:00">>]
row_blank == [th |-> "", tds |-> <<"", "07:00">>]

\* the detail pages: without the table, and with tables of these rows
DetailPages ==
    { [table |-> FALSE, rows |-> <<>>],
      [table |-> TRUE, rows |-> <<row_blank>>],
      [table |-> TRUE, rows |-> <<row_sunday, row_next, row_single>>] }

\* the entry a row of the table adds, under the mass type in force
RowEntries(row, current) ==
    IF Len(row.tds) >= 2
    THEN IF row.tds[1] /= "" /\ row.tds[2] /= ""
         THEN <<[type |-> current, day |-> row.tds[1], times |-> row.tds[2]]>>
         ELSE <<>>
    ELSE IF Len(row.tds) = 1 /\ row.th /= ""
    THEN IF row.tds[1] /= ""
         THEN <<[type |-> current, day |-> "", times |-> row.tds[1]]>>
         ELSE <<>>
    ELSE <<>>

\* the loop of parse_church_detail over the rows
RECURSIVE MassEntries(_, _)
MassEntries(rows, current) ==
    IF rows = <<>> THEN <<>>
    ELSE LET now == IF rows[1].th /= "" THEN rows[1].th ELSE current
         IN RowEntries(rows[1], now) \o MassEntries(Tail(rows), now)

\* parse_church_detail once its request returned: {} without a response,
\* else mass_times_structured and mass_times_text (as the parts " | " joins)
parse_church_detail(response, body) ==
    IF response /= "ok" THEN [x \in {} |-> <<>>]
    ELSE LET entries == IF body.table THEN MassEntries(body.rows, "") ELSE <<>>
         IN [mass_times_structured |-> entries, mass_times_text |-> entries]

\* fetch_church_list once its request returned
fetch_church_list(response, body) ==
    IF response /= "ok" THEN <<>>
    ELSE IF ~body.json THEN <<>>
    ELSE body.BOARDLIST

(***************************************************************************)
(* run()                                                                   *)
(***************************************************************************)

\* the limit test passing only beyond the limit
LimitPassed(collected, most) == collected > most

\* if items_collected >= self.max_items
LimitReached(collected, most) == collected >= most

\* item.get(field, '').strip() raises for a null
Raises(item, field) == field \in DOMAIN item /\ item[field].t = "null"

Text(item, field) == IF field \in DOMAIN item THEN Strip(item[field].s) ELSE <<>>

\* item.get('orgnum'), <<>> for a missing or null one
ApiOrgnum(item) == IF "orgnum" \in DOMAIN item THEN item.orgnum.s ELSE <<>>

\* data_entry as built from the API item
DataEntry(item) ==
    [name |-> Text(item, "TITLE"),
     orgnum |-> ApiOrgnum(item),
     type |-> _detect_type(Text(item, "TITLE")),
     address |-> Text(item, "addr")]

\* data_entry after the detail page was read
Detailed(entry, details) ==
    LET structured == Get(details, "mass_times_structured", <<>>)
        text == Get(details, "mass_times_text", <<>>)
        first == IF structured /= <<>>
                 THEN ("mass_times_structured" :> structured) @@ ("has_mass_times" :> "True")
                      @@ entry
                 ELSE ("has_mass_times" :> "False") @@ entry
    IN IF text /= <<>> THEN ("mass_times_detail" :> text) @@ first ELSE first

\* the entry of missing_mass_times for data_entry
Missing(entry) ==
    [name |-> entry.name, orgnum |-> entry.orgnum, address |-> entry.address]

(***************************************************************************)
(* save_data()                                                             *)
(***************************************************************************)

\* key = item.get('orgnum') or item.get('name')
KeyOf(item) == IF OrgnumOf(item) /= <<>> THEN OrgnumOf(item) ELSE Get(item, "name", <<>>)

\* the new record put in place of the old one
Overwritten(old, new) == new

\* old.update(new)
Update(old, new) == new @@ old

HasKey(map, key) == \E i \in DOMAIN map : map[i].key = key

\* map[key] = item: in place for a key of the dict, at the end for a new one
Put(map, key, item) ==
    IF HasKey(map, key)
    THEN [i \in DOMAIN map |-> IF map[i].key = key THEN [key |-> key, item |-> item] ELSE map[i]]
    ELSE Append(map, [key |-> key, item |-> item])

\* existing_map after the loop over the file
RECURSIVE LoadMap(_, _)
LoadMap(file, map) ==
    IF file = <<>> THEN map
    ELSE LoadMap(Tail(file), Put(map, KeyOf(file[1]), file[1]))

ItemAt(map, key) == map[CHOOSE i \in DOMAIN map : map[i].key = key].item

\* one pass of the merge loop
MergeOne(map, new_item) ==
    IF HasKey(map, KeyOf(new_item))
    THEN Put(map, KeyOf(new_item), Update(ItemAt(map, KeyOf(new_item)), new_item))
    ELSE Put(map, KeyOf(new_item), new_item)

RECURSIVE Merge(_, _)
Merge(map, items) ==
    IF items = <<>> THEN map
    ELSE Merge(MergeOne(map, items[1]), Tail(items))

\* list(existing_map.values())
Values(map) == [i \in DOMAIN map |-> map[i].item]

\* the file save_data writes for the collected data
Saved(file, collected) == Values(Merge(LoadMap(file, <<>>), collected))

\* collected_data after save_data: the first item of a key the file did not hold
\* is the object the dict holds, and the later items of the key were merged into it
Aliased(file, collected) ==
    [i \in DOMAIN collected |->
        IF /\ ~HasKey(LoadMap(file, <<>>), KeyOf(collected[i]))
           /\ \A j \in 1..(i - 1) : KeyOf(collected[j]) /= KeyOf(collected[i])
        THEN ItemAt(Merge(LoadMap(file, <<>>), collected), KeyOf(collected[i]))
        ELSE collected[i]]

\* the merge of the missing list: keyed by orgnum, the new entry replaces the old
RECURSIVE MergeMissing(_, _)
MergeMissing(map, items) ==
    IF items = <<>> THEN map
    ELSE MergeMissing(Put(map, OrgnumOf(items[1]), items[1]), Tail(items))

SavedMissing(file, missing) == Values(MergeMissing(MergeMissing(<<>>, file), missing))

(***************************************************************************)
(* The crawler's run: main() constructs a crawler, calls run() and then    *)
(* save_data()                                                             *)
(***************************************************************************)

\* the max_pages and max_items arguments of the constructor
PageArgs == {1, 999}
ItemArgs == {1, 2, 9999}

\* how often save_data() is called at most
MaxSaves == 2

\* records of the data file before the run
rec_full ==
    [name |-> ch_myeongdong, orgnum |-> o_1, type |-> "church", address |-> <<>>,
     has_mass_times |-> "True",
     mass_times_structured |-> <<[type |-> "sunday", day |-> "sun", times |-> "09:00"]>>,
     mass_times_detail |-> <<[type |-> "sunday", day |-> "sun", times |-> "09:00"]>>]
rec_bare ==
    [name |-> ch_myeongdong, orgnum |-> o_1, type |-> "church", address |-> <<>>,
     has_mass_times |-> "False", memo |-> "kept"]
rec_named == [name |-> Strip(ch_sangok), type |-> "gongso"]

\* the data file and the missing list before the run
DataFiles ==
    { [data |-> <<>>, missing |-> <<>>],
      [data |-> <<rec_full>>, missing |-> <<>>],
      [data |-> <<rec_named, rec_bare>>, missing |-> <<Missing(rec_bare)>>] }

\* the repair crawler is not running
RepairIdle ==
    /\ input_dir = {f_other}
    /\ limit = None
    /\ files = <<>>
    /\ fpos = 0
    /\ pc = "off"
    /\ posts = <<>>
    /\ idx = 0
    /\ repaired_posts = <<>>
    /\ failed_posts = <<>>
    /\ stats = [total |-> 0, success |-> 0, failed |-> 0]
    /\ pages = 0
    /\ cur = NoCur
    /\ result_data = None
    /\ nav = NoCall
    /\ out_dir = {}
    /\ started = <<>>
    /\ finished = {}
    /\ invoked = {}
    /\ counted = <<>>
    /\ loaded = 0
    /\ fn_call = NoFn
    /\ returned = None

\* before GoodNewsCrawler(...) is called
CrawlInit ==
    /\ RepairIdle
    /\ PublisherIdle
    /\ EnricherIdle
    /\ max_pages = 0
    /\ max_items = 0
    /\ test_mode = FALSE
    /\ ctor_args = <<>>
    /\ collected_data = <<>>
    /\ missing_mass_times = <<>>
    /\ collected_orgnums = {}
    /\ skipped_count = 0
    /\ \E f \in DataFiles : data_file = f.data /\ missing_file = f.missing
    /\ crawl_pc = "new"
    /\ run_args = <<>>
    /\ page = 0
    /\ items_collected = 0
    /\ church_list = <<>>
    /\ item_pos = 0
    /\ request = NoRequest
    /\ requests = <<>>
    /\ served = 0
    /\ saves = 0

\* __init__
Construct ==
    /\ crawl_pc = "new"
    /\ \E mp \in PageArgs, mi \in ItemArgs, tm \in BOOLEAN :
          /\ ctor_args' = [max_pages |-> mp, max_items |-> mi, test_mode |-> tm]
          /\ max_pages' = Min(mp, ABSOLUTE_MAX_PAGES)
          /\ max_items' = Min(mi, ABSOLUTE_MAX_ITEMS)
          /\ test_mode' = tm
    /\ collected_data' = <<>>
    /\ missing_mass_times' = <<>>
    /\ collected_orgnums' = ExistingOrgnums(data_file)
    /\ skipped_count' = 0
    /\ crawl_pc' = "ready"
    /\ UNCHANGED <<data_file, missing_file, run_args, page, items_collected, church_list,
                   item_pos, request, requests, saves, served>>
    /\ UNCHANGED <<repair_vars, publisher_vars, enricher_vars>>

\* run(...) up to its outer loop
Run ==
    /\ crawl_pc = "ready"
    /\ \E fd \in BOOLEAN, fu \in BOOLEAN :
          run_args' = [start_page |-> 1, fetch_details |-> fd, force_update |-> fu]
    /\ page' = 1
    /\ items_collected' = 0
    /\ crawl_pc' = "page"
    /\ UNCHANGED <<max_pages, max_items, test_mode, ctor_args, collected_data,
                   missing_mass_times, collected_orgnums, skipped_count, data_file,
                   missing_file, church_list, item_pos, request, requests, saves, served>>
    /\ UNCHANGED <<repair_vars, publisher_vars, enricher_vars>>

\* the top of the outer loop: the end of the range or the limit ends run(),
\* else fetch_church_list makes its request
PageStep ==
    /\ crawl_pc = "page"
    /\ IF page >= run_args.start_page + max_pages \/ LimitReached(items_collected, max_items)
       THEN /\ crawl_pc' = "returned"
            /\ UNCHANGED <<request, requests>>
       ELSE /\ crawl_pc' = "list"
            /\ request' = NewRequest("list")
            /\ requests' = Append(requests, [kind |-> "list", collected |-> items_collected])
    /\ UNCHANGED <<max_pages, max_items, test_mode, ctor_args, collected_data,
                   missing_mass_times, collected_orgnums, skipped_count, data_file,
                   missing_file, run_args, page, items_collected, church_list, item_pos,
                   saves, served>>
    /\ UNCHANGED <<repair_vars, publisher_vars, enricher_vars>>

\* one attempt of the _make_request call in progress, ending in one of outcomes
MakeRequestOn(outcomes) ==
    /\ crawl_pc \in {"list", "detail"}
    /\ Pending(request)
    /\ \E outcome \in outcomes : request' = Attempt(request, outcome)
    /\ UNCHANGED <<max_pages, max_items, test_mode, ctor_args, collected_data,
                   missing_mass_times, collected_orgnums, skipped_count, data_file,
                   missing_file, crawl_pc, run_args, page, items_collected, church_list,
                   item_pos, requests, saves, served>>
    /\ UNCHANGED <<repair_vars, publisher_vars, enricher_vars>>

\* how the attempts of the crawler's run end: at once, or with a connection error
RunOutcomes == {o \in Outcomes : o.elapsed = 0 /\ o.raised \in {"none", "ConnectionError"}}

MakeRequest == MakeRequestOn(RunOutcomes)

\* fetch_church_list returns: run() ends on an empty list, else its inner loop starts
FetchChurchList ==
    /\ crawl_pc = "list"
    /\ ~Pending(request)
    /\ \E body \in ListBodies(ServerItems - served) :
          /\ church_list' = fetch_church_list(request.response, body)
          /\ served' = served + Len(church_list')
          /\ IF church_list' = <<>>
             THEN crawl_pc' = "returned" /\ item_pos' = 0
             ELSE crawl_pc' = "item" /\ item_pos' = 1
    /\ request' = NoRequest
    /\ UNCHANGED <<max_pages, max_items, test_mode, ctor_args, collected_data,
                   missing_mass_times, collected_orgnums, skipped_count, data_file,
                   missing_file, run_args, page, items_collected, requests, saves>>
    /\ UNCHANGED <<repair_vars, publisher_vars, enricher_vars>>

\* the inner loop goes on to its next item
NextItem ==
    /\ item_pos' = item_pos + 1
    /\ UNCHANGED <<crawl_pc, page, request, requests>>

\* the top of the inner loop, and the pass for one item up to its detail request
ItemStep ==
    /\ crawl_pc = "item"
    /\ IF item_pos > Len(church_list) \/ LimitReached(items_collected, max_items)
       THEN /\ page' = page + 1
            /\ crawl_pc' = "page"
            /\ UNCHANGED <<collected_data, skipped_count, items_collected, item_pos,
                           request, requests>>
       ELSE LET item == church_list[item_pos]
            IN IF Raises(item, "TITLE") \/ ApiOrgnum(item) = <<>>
                  \/ Text(item, "TITLE") = <<>>
               THEN /\ NextItem
                    /\ UNCHANGED <<collected_data, skipped_count, items_collected>>
               ELSE IF ~run_args.force_update /\ ApiOrgnum(item) \in collected_orgnums
               THEN /\ skipped_count' = skipped_count + 1
                    /\ NextItem
                    /\ UNCHANGED <<collected_data, items_collected>>
               ELSE IF Raises(item, "addr")
               THEN /\ NextItem
                    /\ UNCHANGED <<collected_data, skipped_count, items_collected>>
               ELSE IF run_args.fetch_details
               THEN /\ crawl_pc' = "detail"
                    /\ request' = NewRequest("detail")
                    /\ requests' = Append(requests, [kind |-> "detail",
                                                     collected |-> items_collected])
                    /\ UNCHANGED <<collected_data, skipped_count, items_collected, page,
                                   item_pos>>
               ELSE /\ collected_data' =
                        Append(collected_data, ("has_mass_times" :> "None") @@ DataEntry(item))
                    /\ items_collected' = items_collected + 1
                    /\ NextItem
                    /\ UNCHANGED skipped_count
    /\ UNCHANGED <<max_pages, max_items, test_mode, ctor_args, missing_mass_times,
                   collected_orgnums, data_file, missing_file, run_args, church_list, saves, served>>
    /\ UNCHANGED <<repair_vars, publisher_vars, enricher_vars>>

\* parse_church_detail returns and the pass for the item ends
ParseChurchDetail ==
    /\ crawl_pc = "detail"
    /\ ~Pending(request)
    /\ \E body \in DetailPages :
          LET entry == Detailed(DataEntry(church_list[item_pos]),
                                parse_church_detail(request.response, body))
          IN /\ collected_data' = Append(collected_data, entry)
             /\ missing_mass_times' =
                    IF entry.has_mass_times = "False"
                    THEN Append(missing_mass_times, Missing(entry))
                    ELSE missing_mass_times
    /\ items_collected' = items_collected + 1
    /\ item_pos' = item_pos + 1
    /\ crawl_pc' = "item"
    /\ request' = NoRequest
    /\ UNCHANGED <<max_pages, max_items, test_mode, ctor_args, collected_orgnums,
                   skipped_count, data_file, missing_file, run_args, page, church_list,
                   requests, saves, served>>
    /\ UNCHANGED <<repair_vars, publisher_vars, enricher_vars>>

\* save_data() after run() returned
SaveData ==
    /\ crawl_pc = "returned"
    /\ saves < MaxSaves
    /\ saves' = saves + 1
    /\ IF test_mode
       THEN UNCHANGED <<data_file, missing_file, collected_data>>
       ELSE /\ data_file' = Saved(data_file, collected_data)
            /\ collected_data' = Aliased(data_file, collected_data)
            /\ missing_file' = IF missing_mass_times /= <<>>
                               THEN SavedMissing(missing_file, missing_mass_times)
                               ELSE missing_file
    /\ UNCHANGED <<max_pages, max_items, test_mode, ctor_args, missing_mass_times,
                   collected_orgnums, skipped_count, crawl_pc, run_args, page,
                   items_collected, church_list, item_pos, request, requests, served>>
    /\ UNCHANGED <<repair_vars, publisher_vars, enricher_vars>>

CrawlNext ==
    \/ Construct
    \/ Run
    \/ PageStep
    \/ MakeRequest
    \/ FetchChurchList
    \/ ItemStep
    \/ ParseChurchDetail
    \/ SaveData

CrawlSpec == CrawlInit /\ [][CrawlNext]_vars

(***************************************************************************)
(* One _make_request call, with every way its attempts can end: the first  *)
(* list request of a run, or the detail request for the first item         *)
(***************************************************************************)

\* the items run() makes a detail request for
Collectible ==
    {item \in ApiItems : /\ ~Raises(item, "TITLE") /\ ~Raises(item, "addr")
                         /\ ApiOrgnum(item) /= <<>> /\ Text(item, "TITLE") /= <<>>}

RequestInit ==
    /\ RepairIdle
    /\ PublisherIdle
    /\ EnricherIdle
    /\ \E mp \in PageArgs, mi \in ItemArgs, tm \in BOOLEAN :
          /\ ctor_args = [max_pages |-> mp, max_items |-> mi, test_mode |-> tm]
          /\ max_pages = Min(mp, ABSOLUTE_MAX_PAGES)
          /\ max_items = Min(mi, ABSOLUTE_MAX_ITEMS)
          /\ test_mode = tm
    /\ collected_data = <<>>
    /\ missing_mass_times = <<>>
    /\ \E f \in DataFiles : data_file = f.data /\ missing_file = f.missing
    /\ collected_orgnums = ExistingOrgnums(data_file)
    /\ skipped_count = 0
    /\ page = 1
    /\ items_collected = 0
    /\ saves = 0
    /\ \/ /\ crawl_pc = "list"
          /\ \E fd \in BOOLEAN, fu \in BOOLEAN :
                run_args = [start_page |-> 1, fetch_details |-> fd, force_update |-> fu]
          /\ church_list = <<>>
          /\ item_pos = 0
          /\ served = 0
          /\ request = NewRequest("list")
          /\ requests = <<[kind |-> "list", collected |-> 0]>>
       \/ /\ crawl_pc = "detail"
          /\ run_args = [start_page |-> 1, fetch_details |-> TRUE, force_update |-> TRUE]
          /\ \E item \in Collectible : church_list = <<item>>
          /\ item_pos = 1
          /\ served = 1
          /\ request = NewRequest("detail")
          /\ requests = <<[kind |-> "list", collected |-> 0],
                          [kind |-> "detail", collected |-> 0]>>

AnyRequest == MakeRequestOn(Outcomes)

RequestNext == AnyRequest

RequestSpec == RequestInit /\ [][RequestNext]_vars

(***************************************************************************)
(* Properties of the list crawler                                          *)
(***************************************************************************)

\* the crawler was constructed
Constructed == crawl_pc \notin {"idle", "new"}

\* C21: a constructed crawler holds a max_pages of at most 50 and a max_items of
\* at most 1000, whatever its arguments; constructed with max_pages = 999 and
\* max_items = 9999 it holds exactly 50 and 1000
C21_AbsoluteLimits ==
    Constructed =>
        /\ max_pages <= 50
        /\ max_items <= 1000
        /\ ctor_args.max_pages = 999 => max_pages = 50
        /\ ctor_args.max_items = 9999 => max_items = 1000

\* C22: run() stops collecting at max_items records: the list it builds and returns
\* never holds more than max_items records, the records are counted as they are
\* collected, and every list or detail request was made while fewer than max_items
\* records were collected
C22_StopsAtMaxItems ==
    Constructed =>
        /\ Len(collected_data) <= max_items
        /\ crawl_pc /= "ready" => items_collected = Len(collected_data)
        /\ \A i \in DOMAIN requests : requests[i].collected < max_items

\* run() returned max_items records and left an item of the last list unread
C22_LimitCutsList ==
    /\ crawl_pc = "returned"
    /\ Len(collected_data) = max_items
    /\ item_pos >= 1
    /\ item_pos <= Len(church_list)

\* the keys of the records of a list
KeysOf(list) == {KeyOf(list[i]) : i \in DOMAIN list}

\* the record of the old file with the key, if any, then the new records with the
\* key in the order they were collected
SourcesOf(key, old, new) ==
    LET Keyed(r) == KeyOf(r) = key
    IN SelectSeq(old, Keyed) \o SelectSeq(new, Keyed)

\* rec holds every field of the sources, each with the value of the last source
\* that has the field
Overlay(rec, sources) ==
    /\ DOMAIN rec = UNION {DOMAIN sources[i] : i \in DOMAIN sources}
    /\ \A f \in DOMAIN rec :
          \E i \in DOMAIN sources :
              /\ f \in DOMAIN sources[i]
              /\ rec[f] = sources[i][f]
              /\ \A j \in (i + 1)..Len(sources) : f \notin DOMAIN sources[j]

\* out holds one record per key of old and new: the old record where no new record
\* has its key, else the old record updated with the fields of the new ones
MergedAs(old, new, out) ==
    /\ \A i, j \in DOMAIN out : KeyOf(out[i]) = KeyOf(out[j]) => i = j
    /\ KeysOf(out) = KeysOf(old) \cup KeysOf(new)
    /\ \A i \in DOMAIN old : KeyOf(old[i]) \notin KeysOf(new) => \E j \in DOMAIN out : out[j] = old[i]
    /\ \A j \in DOMAIN out : Overlay(out[j], SourcesOf(KeyOf(out[j]), old, new))

\* C23: save_data() in non-test mode leaves in the data file exactly one record
\* per key (orgnum, else name): a record of the file whose key was not collected
\* is kept unchanged, a record whose key was collected is the old record updated
\* with the fields of the new one, new keys are added; a second save_data()
\* leaves the file as it is
C23_SaveMerges ==
    [][(crawl_pc = "returned" /\ saves' = saves + 1 /\ ~test_mode) =>
          /\ MergedAs(data_file, collected_data, data_file')
          /\ saves >= 1 => data_file' = data_file]_vars

\* save_data() was called twice, and the file holds a record it held before the
\* run, one it held updated by a collected record, and a collected one with a new key
C23_KeptUpdatedAdded ==
    /\ saves = 2
    /\ ~test_mode
    /\ \E i, j, k \in DOMAIN data_file :
          /\ data_file[i] = rec_named
          /\ KeyOf(data_file[j]) = o_1
          /\ "memo" \in DOMAIN data_file[j]
          /\ data_file[j].address = addr_seoul
          /\ KeyOf(data_file[k]) = o_2

\* the events of the log that are requests
RequestsIn(log) == {i \in DOMAIN log : log[i].ev = "request"}

\* the events of the log that are the retry delay
DelaysIn(log) == {i \in DOMAIN log : log[i].ev = "sleep" /\ log[i].n = RETRY_DELAY}

\* C28: a _make_request call makes at most three attempts; an attempt that got a
\* response is its last one and the call returns that response; the call returns
\* None exactly when it made three attempts and each raised Timeout,
\* ConnectionError or RequestException; the retry delay comes once between two
\* attempts and never after the last attempt of a call that returned
C28_AtMostThreeAttempts ==
    LET log == request.log
        tries == RequestsIn(log)
    IN Constructed =>
        /\ Cardinality(tries) <= 3
        /\ \A i \in tries : log[i].raised = "none" =>
              /\ request.response = "ok"
              /\ \A j \in tries : j <= i
        /\ request.response = "ok" => \E i \in tries : log[i].raised = "none"
        /\ request.response = "None" <=>
              /\ Cardinality(tries) = 3
              /\ \A i \in tries :
                    log[i].raised \in {"Timeout", "ConnectionError", "RequestException"}
        /\ \A i, j \in tries :
              (i < j /\ \A k \in tries : ~(i < k /\ k < j)) =>
                  Cardinality({d \in DelaysIn(log) : i < d /\ d < j}) = 1
        /\ ~Pending(request) => \A d \in DelaysIn(log) : \E i \in tries : d < i

\* a call that returned None after three timeouts, the last wait being the one of
\* the timeout
C28_ThreeTimeouts ==
    /\ request.response = "None"
    /\ \A i \in RequestsIn(request.log) : request.log[i].raised = "Timeout"
    /\ request.log[Len(request.log)] = Slept(60)

(***************************************************************************)
(* Enricher (src/crawler/enricher.py, ChurchEnricher)                      *)
(***************************************************************************)

\* records of data/catholic_data.json
raw_1 == [name |-> ch_myeongdong, orgnum |-> o_1, address |-> addr_seoul]
raw_2 == [name |-> Strip(ch_sangok), orgnum |-> o_2, address |-> <<>>]
raw_3 == [name |-> ch_myeongdong, orgnum |-> o_3, address |-> addr_seoul]

\* the raw data files
RawFiles ==
    {<<>>, <<raw_1>>, <<raw_1, raw_2>>, <<raw_1, raw_2, raw_3>>, <<raw_3, raw_1, raw_2>>}

\* enrich_church: the church with its location (or None), landmarks and tags
Enriched(church, location) ==
    ("location" :> location) @@ ("enrichment_status" :> "completed")
    @@ ("enrichment_version" :> "v2") @@ church

\* the church after enrich_church raised behind the geocoding
FailedEnrichment(church) ==
    ("location" :> IF church.address = <<>> THEN "None" ELSE "found")
    @@ ("enrichment_status" :> "failed") @@ church

\* how enrich_church ends: with a location (if there is an address to geocode) or
\* without one, or with an exception
EnrichOutcomes(church) ==
    IF church.address = <<>> THEN {"None", "raises"} ELSE {"found", "None", "raises"}

\* the enriched data files
EnrichedFiles ==
    { <<>>,
      <<Enriched(raw_1, "found")>>,
      <<Enriched(raw_2, "None")>>,
      <<Enriched(raw_1, "found"), Enriched(raw_2, "None")>>,
      <<Enriched(raw_1, "found"), FailedEnrichment(raw_3), Enriched(raw_2, "None")>>,
      <<FailedEnrichment(raw_3)>> }

\* the loop that fills existing_enriched: the v2 records of the file by orgnum
RECURSIVE LoadEnriched(_, _)
LoadEnriched(file, map) ==
    IF file = <<>> THEN map
    ELSE LoadEnriched(Tail(file),
                      IF Get(file[1], "enrichment_version", "") = "v2"
                      THEN Put(map, OrgnumOf(file[1]), file[1])
                      ELSE map)

\* _save_progress(data): the file after it
_save_progress(data) == IF enr_args.test_mode THEN enriched_file ELSE data

\* max_items and self.processed_count >= max_items
MaxReached == enr_args.max_items /= 0 /\ processed_count >= enr_args.max_items

EnrichInit ==
    /\ RepairIdle
    /\ PublisherIdle
    /\ CrawlerOff
    /\ data_file \in RawFiles
    /\ enr_pc = "new"
    /\ enr_args = <<>>
    /\ enriched_file \in EnrichedFiles
    /\ \A i \in DOMAIN enriched_file :
          \E j \in DOMAIN data_file : OrgnumOf(data_file[j]) = OrgnumOf(enriched_file[i])
    /\ enriched_before = <<>>
    /\ churches = <<>>
    /\ existing_enriched = <<>>
    /\ enriched_churches = <<>>
    /\ enr_pos = 0
    /\ processed_count = 0
    /\ enr_skipped_count = 0
    /\ failed_count = 0

\* ChurchEnricher(test_mode, force_update) and run(max_items) up to its loop
EnrichRun ==
    /\ enr_pc = "new"
    /\ \E tm \in BOOLEAN, fu \in BOOLEAN, mi \in {0, 1, 2} :
          /\ enr_args' = [test_mode |-> tm, force_update |-> fu, max_items |-> mi]
          /\ existing_enriched' = IF fu THEN <<>> ELSE LoadEnriched(enriched_file, <<>>)
    /\ enriched_before' = enriched_file
    /\ churches' = data_file
    /\ enr_pos' = 1
    /\ enr_pc' = IF data_file = <<>> THEN "done" ELSE "loop"
    /\ UNCHANGED <<enriched_file, enriched_churches, processed_count, enr_skipped_count,
                   failed_count>>
    /\ UNCHANGED <<repair_vars, crawler_vars, publisher_vars>>

\* one pass of run()'s loop, or its end with the final save
EnrichStep ==
    /\ enr_pc = "loop"
    /\ IF enr_pos > Len(churches) \/ MaxReached
       THEN /\ enriched_file' = _save_progress(enriched_churches)
            /\ enr_pc' = "done"
            /\ UNCHANGED <<enriched_churches, enr_pos, processed_count, enr_skipped_count,
                           failed_count>>
       ELSE LET church == churches[enr_pos]
            IN /\ enr_pos' = enr_pos + 1
               /\ enr_pc' = "loop"
               /\ IF HasKey(existing_enriched, OrgnumOf(church)) /\ ~enr_args.force_update
                  THEN /\ enr_skipped_count' = enr_skipped_count + 1
                       /\ enriched_churches' =
                              Append(enriched_churches,
                                     ItemAt(existing_enriched, OrgnumOf(church)))
                       /\ UNCHANGED <<enriched_file, processed_count, failed_count>>
                  ELSE /\ \E outcome \in EnrichOutcomes(church) :
                             IF outcome = "raises"
                             THEN /\ enriched_churches' =
                                         Append(enriched_churches, FailedEnrichment(church))
                                  /\ failed_count' = failed_count + 1
                                  /\ UNCHANGED processed_count
                             ELSE /\ enriched_churches' =
                                         Append(enriched_churches, Enriched(church, outcome))
                                  /\ processed_count' = processed_count + 1
                                  /\ UNCHANGED failed_count
                       /\ enriched_file' = IF enr_pos % 3 = 0
                                           THEN _save_progress(enriched_churches')
                                           ELSE enriched_file
                       /\ UNCHANGED enr_skipped_count
    /\ UNCHANGED <<enr_args, enriched_before, churches, existing_enriched>>
    /\ UNCHANGED <<repair_vars, crawler_vars, publisher_vars>>

EnrichNext ==
    \/ EnrichRun
    \/ EnrichStep

EnrichSpec == EnrichInit /\ [][EnrichNext]_vars

\* the orgnums of the records of a file that are v2-enriched
EnrichedV2(file) ==
    {OrgnumOf(file[i]) : i \in {j \in DOMAIN file :
        Get(file[j], "enrichment_version", "") = "v2"}}

\* C29: after a run() that completed in non-test mode without force_update,
\* whatever its max_items, every record that was v2-enriched in the enriched data
\* file before the run is still in the file
C29_EnrichedKept ==
    (enr_pc = "done" /\ ~enr_args.test_mode /\ ~enr_args.force_update) =>
        \A o \in EnrichedV2(enriched_before) :
            \E i \in DOMAIN enriched_file : OrgnumOf(enriched_file[i]) = o

(***************************************************************************)
(* Publisher (src/crawler/publisher.py, WordPressPublisher)                *)
(*                                                                         *)
(* main() constructs a publisher, which loads the published log, and calls *)
(* run(); the process ends when run() returns, or earlier between two      *)
(* publish_church calls.  The log file is readable (a JSON dict) or not    *)
(* (left half-written).                                                    *)
(***************************************************************************)

\* how often the publisher is started at most
MaxRuns == 2

\* how the write of _save_published_log ends: done, open() raised, or json.dump
\* raised after open() truncated the file
WriteOutcomes == {"ok", "open raises", "dump raises"}

\* the log file after _save_published_log
_save_published_log(log, outcome) ==
    IF outcome = "ok" THEN [readable |-> TRUE, log |-> log]
    ELSE IF outcome = "open raises" THEN published_file
    ELSE [readable |-> FALSE, log |-> <<>>]

\* _load_published_log
_load_published_log == IF published_file.readable THEN published_file.log ELSE <<>>

\* the candidates of run(): the churches whose enrichment is completed
Candidates(file) ==
    LET IsCompleted(c) == Get(c, "enrichment_status", "") = "completed"
    IN SelectSeq(file, IsCompleted)

\* the end of one pass of run()'s loop
Processed(counter) ==
    /\ pub_stats' = [pub_stats EXCEPT ![counter] = @ + 1, !.processed = @ + 1]
    /\ cand_pos' = cand_pos + 1

PubInit ==
    /\ RepairIdle
    /\ CrawlerIdle
    /\ EnricherOff
    /\ enriched_file \in EnrichedFiles
    /\ pub_pc = "down"
    /\ pub_test_mode = FALSE
    /\ published_log = <<>>
    /\ published_file = [readable |-> TRUE, log |-> <<>>]
    /\ pub_stats = [processed |-> 0, skipped |-> 0, success |-> 0, failed |-> 0]
    /\ candidates = <<>>
    /\ cand_pos = 0
    /\ pub_max_items = 0
    /\ wp_posts = <<>>
    /\ pub_runs = 0

\* WordPressPublisher(test_mode) and run(max_items) up to its loop
PubRun ==
    /\ pub_pc = "down"
    /\ pub_runs < MaxRuns
    /\ pub_runs' = pub_runs + 1
    /\ pub_test_mode' \in BOOLEAN
    /\ published_log' = _load_published_log
    /\ pub_stats' = [processed |-> 0, skipped |-> 0, success |-> 0, failed |-> 0]
    /\ pub_max_items' \in {0, 1}
    /\ candidates' = Candidates(enriched_file)
    /\ cand_pos' = 1
    /\ pub_pc' = "loop"
    /\ UNCHANGED <<published_file, wp_posts>>
    /\ UNCHANGED <<repair_vars, crawler_vars, enricher_vars>>

\* the top of run()'s loop and one publish_church call
PublishChurch ==
    /\ pub_pc = "loop"
    /\ IF cand_pos > Len(candidates)
          \/ (pub_max_items /= 0 /\ pub_stats.processed >= pub_max_items)
       THEN /\ pub_pc' = "done"
            /\ UNCHANGED <<published_log, published_file, pub_stats, cand_pos, wp_posts>>
       ELSE /\ pub_pc' = "loop"
            /\ IF HasKey(published_log, OrgnumOf(candidates[cand_pos]))
               THEN /\ Processed("skipped")
                    /\ UNCHANGED <<published_log, published_file, wp_posts>>
               ELSE \E content \in {"built", "raises"}, post \in {"created", "None"},
                       written \in WriteOutcomes :
                       IF content = "raises"
                       THEN /\ Processed("failed")
                            /\ UNCHANGED <<published_log, published_file, wp_posts>>
                       ELSE IF pub_test_mode
                       THEN /\ Processed("success")
                            /\ UNCHANGED <<published_log, published_file, wp_posts>>
                       ELSE IF post = "None"
                       THEN /\ Processed("failed")
                            /\ UNCHANGED <<published_log, published_file, wp_posts>>
                       ELSE /\ wp_posts' = Append(wp_posts, OrgnumOf(candidates[cand_pos]))
                            /\ published_log' =
                                   Put(published_log, OrgnumOf(candidates[cand_pos]),
                                       [name |-> Get(candidates[cand_pos], "name", <<>>),
                                        post_id |-> Len(wp_posts')])
                            /\ published_file' = _save_published_log(published_log', written)
                            /\ Processed("success")
    /\ UNCHANGED <<pub_test_mode, candidates, pub_max_items, pub_runs>>
    /\ UNCHANGED <<repair_vars, crawler_vars, enricher_vars>>

\* the process ends, between two publish_church calls or after run() returned
PubExit ==
    /\ pub_pc \in {"loop", "done"}
    /\ pub_pc' = "down"
    /\ published_log' = <<>>
    /\ candidates' = <<>>
    /\ cand_pos' = 0
    /\ UNCHANGED <<pub_test_mode, published_file, pub_stats, pub_max_items, wp_posts,
                   pub_runs>>
    /\ UNCHANGED <<repair_vars, crawler_vars, enricher_vars>>

PubNext ==
    \/ PubRun
    \/ PublishChurch
    \/ PubExit

PubSpec == PubInit /\ [][PubNext]_vars

\* C24: over any publish_church calls and restarts of the publisher, WordPress
\* holds at most one post per orgnum: once a post was created for an orgnum, no
\* later call creates another one
C24_OnePostPerOrgnum ==
    \A i, j \in DOMAIN wp_posts : wp_posts[i] = wp_posts[j] => i = j

====
